---------------------------- MODULE Spec2Model ----------------------------
(***************************************************************************)
(* A model of the RustyChip CHIP-8 interpreter (src/src/interpreter.rs,    *)
(* src/src/opcodes.rs, src/src/quirks.rs).                                 *)
(*                                                                         *)
(* The state is the Interpreter struct, one variable per field.  The       *)
(* operations are the public methods of Interpreter: load_game,            *)
(* handle_key_press, handle_key_release, handle_cycle and handle_frame.    *)
(* Opcode handlers are operators from an interpreter record to an          *)
(* interpreter record, composed in the order the code runs them.           *)
(*                                                                         *)
(* A Rust panic ends the process: it is recorded in `panicked`, and no     *)
(* operation is possible afterwards.  The canvas (the SDL window) is a     *)
(* pure sink of the drawing buffer and is not modelled.                    *)
(*                                                                         *)
(* The two large arrays are held by their non-default cells: ram, a        *)
(* [u8; RAM_SIZE], is the function from the addresses of its non-zero      *)
(* bytes to those bytes, and drawing_buffer, a [bool; DRAWING_BUFFER_SIZE],*)
(* is the set of the indices of its true cells.  Every cell of either      *)
(* array is readable and writable through ram_get / ram_set and            *)
(* pixel_get / pixel_set; an index outside the array panics in the         *)
(* handler that uses it, as in the code.                                   *)
(***************************************************************************)
EXTENDS Integers, Sequences, FiniteSets, TLC

(***************************************************************************)
(* Program constants                                                       *)
(***************************************************************************)
RAM_SIZE == 4096
STACK_SIZE == 16
REGISTERS_SIZE == 16
PROGRAM_START_ADDRESS == 512
PROGRAM_COUNTER_INCREMENT == 2
BYTE_MASK == 255
LEAST_SIGNIFICANT_BIT_MASK == 1
MOST_SIGNIFICANT_BIT_MASK == 128
REGISTER_F == 15
SCREEN_WIDTH == 64
SCREEN_HEIGHT == 32
DRAWING_BUFFER_SIZE == SCREEN_WIDTH * SCREEN_HEIGHT
HEXADECIMAL_DIGIT_SPRITE_LENGTH == 5
HEXADECIMAL_DIGIT_SPRITES_LENGTH == 80
HEXADECIMAL_DIGIT_SPRITES ==
    << \hF0, \h90, \h90, \h90, \hF0,
       \h20, \h60, \h20, \h20, \h70,
       \hF0, \h10, \hF0, \h80, \hF0,
       \hF0, \h10, \hF0, \h10, \hF0,
       \h90, \h90, \hF0, \h10, \h10,
       \hF0, \h80, \hF0, \h10, \hF0,
       \hF0, \h80, \hF0, \h90, \hF0,
       \hF0, \h10, \h20, \h40, \h40,
       \hF0, \h90, \hF0, \h90, \hF0,
       \hF0, \h90, \hF0, \h10, \hF0,
       \hF0, \h90, \hF0, \h90, \h90,
       \hE0, \h90, \hE0, \h90, \hE0,
       \hF0, \h80, \h80, \h80, \hF0,
       \hE0, \h90, \h90, \h90, \hE0,
       \hF0, \h80, \hF0, \h80, \hF0,
       \hF0, \h80, \hF0, \h80, \h80 >>

CLEAR_SCREEN_OPCODE_FIRST_BYTE == \h00
CLEAR_SCREEN_OPCODE_SECOND_BYTE == \hE0
RETURN_OPCODE_OPCODE_FIRST_BYTE == \h00
RETURN_OPCODE_OPCODE_SECOND_BYTE == \hEE
LOWER_NIBBLE_MASK == \h0F
UPPER_NIBBLE_MASK == \hF0

U8_MODULUS == 256
U16_MODULUS == 65536

(***************************************************************************)
(* Machine arithmetic on u8 / u16 values                                   *)
(***************************************************************************)
\* bit k of v
Bit(v, k) == (v \div (2 ^ k)) % 2

\* v & w, v | w, v ^ w on 16-bit operands
BitAnd(v, w) ==
    LET RECURSIVE go(_)
        go(k) == IF k < 0 THEN 0
                 ELSE (IF Bit(v, k) = 1 /\ Bit(w, k) = 1 THEN 2 ^ k ELSE 0) + go(k - 1)
    IN go(15)

BitOr(v, w) ==
    LET RECURSIVE go(_)
        go(k) == IF k < 0 THEN 0
                 ELSE (IF Bit(v, k) = 1 \/ Bit(w, k) = 1 THEN 2 ^ k ELSE 0) + go(k - 1)
    IN go(15)

BitXor(v, w) ==
    LET RECURSIVE go(_)
        go(k) == IF k < 0 THEN 0
                 ELSE (IF Bit(v, k) # Bit(w, k) THEN 2 ^ k ELSE 0) + go(k - 1)
    IN go(15)

\* v >> n and (v << n) truncated to the operand's width
ShiftRight(v, n) == v \div (2 ^ n)
ShiftLeftU8(v, n) == (v * (2 ^ n)) % U8_MODULUS
ShiftLeftU16(v, n) == (v * (2 ^ n)) % U16_MODULUS

\* u8::saturating_sub
saturating_sub(v, w) == IF v >= w THEN v - w ELSE 0

(***************************************************************************)
(* Opcodes (src/src/opcodes.rs)                                            *)
(***************************************************************************)
\* a variant of enum Opcode with its operands
Opcode(name, args) == [name |-> name, args |-> args]

\* the last match arm answering with a machine-code call instead of the panic
default_to_system_addr(first_byte, second_byte) ==
    Opcode("SystemAddr", <<(first_byte % 16) * 256 + second_byte>>)

\* the panic of get_opcode's last match arm
UnrecognizedOpcode(first_byte, second_byte) ==
    [name |-> "panic: Unrecognized opcode", args |-> <<first_byte, second_byte>>]

get_upper_nibble_u8(byte) == ShiftRight(BitAnd(byte, UPPER_NIBBLE_MASK), 4)

get_lower_nibble_u8(byte) == BitAnd(byte, LOWER_NIBBLE_MASK)

get_upper_nibble(byte) == get_upper_nibble_u8(byte)

get_lower_nibble(byte) == get_lower_nibble_u8(byte)

\* get_addr dropping the nibble of the first byte
get_addr_of_second_byte(first_byte, second_byte) == second_byte

get_addr(first_byte, second_byte) ==
    ShiftLeftU16(get_lower_nibble(first_byte), 8) + second_byte

\* OpcodeBytes::build followed by OpcodeBytes::get_opcode: the match arms in order
get_opcode(first_byte, second_byte) ==
    LET first_nibble == get_upper_nibble_u8(first_byte)
        last_nibble == get_lower_nibble_u8(second_byte)
        x == get_lower_nibble(first_byte)
        y == get_upper_nibble(second_byte)
        addr == get_addr(first_byte, second_byte)
    IN
    IF first_byte = CLEAR_SCREEN_OPCODE_FIRST_BYTE
          /\ second_byte = CLEAR_SCREEN_OPCODE_SECOND_BYTE
        THEN Opcode("ClearScreen", <<>>)
    ELSE IF first_byte = RETURN_OPCODE_OPCODE_FIRST_BYTE
          /\ second_byte = RETURN_OPCODE_OPCODE_SECOND_BYTE
        THEN Opcode("Return", <<>>)
    ELSE IF first_nibble = \h0 THEN Opcode("SystemAddr", <<addr>>)
    ELSE IF first_nibble = \h1 THEN Opcode("JumpAddr", <<addr>>)
    ELSE IF first_nibble = \h2 THEN Opcode("CallAddr", <<addr>>)
    ELSE IF first_nibble = \h3 THEN Opcode("SkipRegisterEqualsValue", <<x, second_byte>>)
    ELSE IF first_nibble = \h4 THEN Opcode("SkipRegisterNotEqualsValue", <<x, second_byte>>)
    ELSE IF first_nibble = \h5 /\ last_nibble = \h0 THEN Opcode("SkipRegistersEqual", <<x, y>>)
    ELSE IF first_nibble = \h6 THEN Opcode("LoadValue", <<x, second_byte>>)
    ELSE IF first_nibble = \h7 THEN Opcode("AddValue", <<x, second_byte>>)
    ELSE IF first_nibble = \h8 /\ last_nibble = \h0 THEN Opcode("LoadRegisterValue", <<x, y>>)
    ELSE IF first_nibble = \h8 /\ last_nibble = \h1 THEN Opcode("Or", <<x, y>>)
    ELSE IF first_nibble = \h8 /\ last_nibble = \h2 THEN Opcode("And", <<x, y>>)
    ELSE IF first_nibble = \h8 /\ last_nibble = \h3 THEN Opcode("Xor", <<x, y>>)
    ELSE IF first_nibble = \h8 /\ last_nibble = \h4 THEN Opcode("AddRegisters", <<x, y>>)
    ELSE IF first_nibble = \h8 /\ last_nibble = \h5
        THEN Opcode("SubtractFromFirstRegister", <<x, y>>)
    ELSE IF first_nibble = \h8 /\ last_nibble = \h6 THEN Opcode("BitShiftRight", <<x, y>>)
    ELSE IF first_nibble = \h8 /\ last_nibble = \h7
        THEN Opcode("SubtractFromSecondRegister", <<x, y>>)
    ELSE IF first_nibble = \h8 /\ last_nibble = \hE THEN Opcode("BitShiftLeft", <<x, y>>)
    ELSE IF first_nibble = \h9 /\ last_nibble = \h0
        THEN Opcode("SkipRegistersNotEqual", <<x, y>>)
    ELSE IF first_nibble = \hA THEN Opcode("LoadRegisterI", <<addr>>)
    ELSE IF first_nibble = \hB THEN Opcode("JumpAddrV0", <<addr>>)
    ELSE IF first_nibble = \hC THEN Opcode("Random", <<x, second_byte>>)
    ELSE IF first_nibble = \hD THEN Opcode("Draw", <<x, y, last_nibble>>)
    ELSE IF first_nibble = \hE /\ second_byte = \h9E THEN Opcode("SkipKeyPressed", <<x>>)
    ELSE IF first_nibble = \hE /\ second_byte = \hA1 THEN Opcode("SkipKeyNotPressed", <<x>>)
    ELSE IF first_nibble = \hF /\ second_byte = \h07 THEN Opcode("LoadDelayTimer", <<x>>)
    ELSE IF first_nibble = \hF /\ second_byte = \h0A THEN Opcode("LoadKeyPress", <<x>>)
    ELSE IF first_nibble = \hF /\ second_byte = \h15 THEN Opcode("SetDelayTimer", <<x>>)
    ELSE IF first_nibble = \hF /\ second_byte = \h18 THEN Opcode("SetSoundTimer", <<x>>)
    ELSE IF first_nibble = \hF /\ second_byte = \h1E THEN Opcode("AddRegisterI", <<x>>)
    ELSE IF first_nibble = \hF /\ second_byte = \h29
        THEN Opcode("SetIHexSpriteLocation", <<x>>)
    ELSE IF first_nibble = \hF /\ second_byte = \h33 THEN Opcode("BinaryCodedDecimal", <<x>>)
    ELSE IF first_nibble = \hF /\ second_byte = \h55 THEN Opcode("StoreRegisters", <<x>>)
    ELSE IF first_nibble = \hF /\ second_byte = \h65 THEN Opcode("LoadRegisters", <<x>>)
    ELSE UnrecognizedOpcode(first_byte, second_byte)

(***************************************************************************)
(* The interpreter (src/src/interpreter.rs)                                *)
(***************************************************************************)
VARIABLES
    is_running,
    ram,
    registers,
    register_i,
    delay_timer,
    sound_timer,
    program_counter,
    stack_pointer,
    stack,
    keyboard,
    should_wait_for_key,
    wait_for_key_register,
    should_wait_for_display_refresh,
    wait_for_display_refresh_data,
    drawing_buffer,
    audio_device,       \* "None", or the status of the borrowed device: "Paused" / "Playing"
    quirk_config,
    overflow_checks,    \* the build profile: TRUE when integer overflow panics (debug)
    panicked,           \* a panic has ended the process
    last_op,            \* history: the operation that produced this state
    prev,               \* history: the interpreter as it was before last_op
    key_latched         \* history: the key most recently pressed during the current key wait

interpreter_vars ==
    << is_running, ram, registers, register_i, delay_timer, sound_timer, program_counter,
       stack_pointer, stack, keyboard, should_wait_for_key, wait_for_key_register,
       should_wait_for_display_refresh, wait_for_display_refresh_data, drawing_buffer,
       audio_device, quirk_config, panicked >>

vars == << interpreter_vars, overflow_checks, last_op, prev, key_latched >>

\* the Interpreter struct as one value
self ==
    [ is_running |-> is_running,
      ram |-> ram,
      registers |-> registers,
      register_i |-> register_i,
      delay_timer |-> delay_timer,
      sound_timer |-> sound_timer,
      program_counter |-> program_counter,
      stack_pointer |-> stack_pointer,
      stack |-> stack,
      keyboard |-> keyboard,
      should_wait_for_key |-> should_wait_for_key,
      wait_for_key_register |-> wait_for_key_register,
      should_wait_for_display_refresh |-> should_wait_for_display_refresh,
      wait_for_display_refresh_data |-> wait_for_display_refresh_data,
      drawing_buffer |-> drawing_buffer,
      audio_device |-> audio_device,
      quirk_config |-> quirk_config,
      panicked |-> panicked ]

\* the next state's interpreter is s
Commit(s) ==
    /\ is_running' = s.is_running
    /\ ram' = s.ram
    /\ registers' = s.registers
    /\ register_i' = s.register_i
    /\ delay_timer' = s.delay_timer
    /\ sound_timer' = s.sound_timer
    /\ program_counter' = s.program_counter
    /\ stack_pointer' = s.stack_pointer
    /\ stack' = s.stack
    /\ keyboard' = s.keyboard
    /\ should_wait_for_key' = s.should_wait_for_key
    /\ wait_for_key_register' = s.wait_for_key_register
    /\ should_wait_for_display_refresh' = s.should_wait_for_display_refresh
    /\ wait_for_display_refresh_data' = s.wait_for_display_refresh_data
    /\ drawing_buffer' = s.drawing_buffer
    /\ audio_device' = s.audio_device
    /\ quirk_config' = s.quirk_config
    /\ panicked' = s.panicked

\* a panic (index out of bounds, arithmetic overflow in a checked build, unrecognized opcode)
Panic(s) == [s EXCEPT !.panicked = TRUE]

\* QuirkConfig::new: the default of every quirk enum
QuirkConfig_new ==
    [ reset_vf |-> "Reset",
      memory |-> "Increment",
      display_wait |-> "Wait",
      clipping |-> "Clip",
      shifting |-> "Vy",
      jumping |-> "V0" ]

\* ram[index], for an index inside the array
ram_get(memory, index) == IF index \in DOMAIN memory THEN memory[index] ELSE 0

\* ram[index] = value
ram_set(memory, index, value) ==
    IF value = 0 THEN [a \in DOMAIN memory \ {index} |-> memory[a]]
    ELSE [a \in DOMAIN memory \cup {index} |-> IF a = index THEN value ELSE memory[a]]

\* drawing_buffer[index]
pixel_get(buffer, index) == index \in buffer

\* drawing_buffer[index] = is_set
pixel_set(buffer, index, is_set) ==
    IF is_set THEN buffer \cup {index} ELSE buffer \ {index}

set_audio_status(s) ==
    IF s.audio_device = "None" THEN s
    ELSE [s EXCEPT !.audio_device = IF s.sound_timer > 0 THEN "Playing" ELSE "Paused"]

\* clear_screen also resetting VF
clear_screen_resetting_flag(s) ==
    [s EXCEPT !.drawing_buffer = {}, !.registers[REGISTER_F] = 0]

clear_screen(s) ==
    [s EXCEPT !.drawing_buffer = {}]

\* new_with_sdl placing the program counter at the program start address
new_with_sdl_at_program_start(device, config) ==
    clear_screen(
        [ is_running |-> FALSE,
          ram |-> [a \in {b \in 0 .. Len(HEXADECIMAL_DIGIT_SPRITES) - 1 :
                                  HEXADECIMAL_DIGIT_SPRITES[b + 1] # 0} |->
                      HEXADECIMAL_DIGIT_SPRITES[a + 1]],
          registers |-> [r \in 0 .. REGISTERS_SIZE - 1 |-> 0],
          register_i |-> 0,
          delay_timer |-> 0,
          sound_timer |-> 0,
          program_counter |-> PROGRAM_START_ADDRESS,
          stack_pointer |-> 0,
          stack |-> [k \in 0 .. STACK_SIZE - 1 |-> 0],
          keyboard |-> {},
          should_wait_for_key |-> FALSE,
          wait_for_key_register |-> 0,
          should_wait_for_display_refresh |-> FALSE,
          wait_for_display_refresh_data |-> <<0, 0, 0>>,
          drawing_buffer |-> {},
          audio_device |-> device,
          quirk_config |-> config,
          panicked |-> FALSE ])

\* Interpreter::new_with_sdl
new_with_sdl(device, config) ==
    clear_screen(
        [ is_running |-> FALSE,
          ram |-> [a \in {b \in 0 .. Len(HEXADECIMAL_DIGIT_SPRITES) - 1 :
                                  HEXADECIMAL_DIGIT_SPRITES[b + 1] # 0} |->
                      HEXADECIMAL_DIGIT_SPRITES[a + 1]],
          registers |-> [r \in 0 .. REGISTERS_SIZE - 1 |-> 0],
          register_i |-> 0,
          delay_timer |-> 0,
          sound_timer |-> 0,
          program_counter |-> 0,
          stack_pointer |-> 0,
          stack |-> [k \in 0 .. STACK_SIZE - 1 |-> 0],
          keyboard |-> {},
          should_wait_for_key |-> FALSE,
          wait_for_key_register |-> 0,
          should_wait_for_display_refresh |-> FALSE,
          wait_for_display_refresh_data |-> <<0, 0, 0>>,
          drawing_buffer |-> {},
          audio_device |-> device,
          quirk_config |-> config,
          panicked |-> FALSE ])

\* load_game leaving the stack and the stack pointer as they were
load_game_keeping_stack(s, game_data) ==
    IF PROGRAM_START_ADDRESS + Len(game_data) > RAM_SIZE THEN Panic(s)
    ELSE
    LET s1 == [s EXCEPT
                 !.ram = [a \in {b \in DOMAIN s.ram : b < HEXADECIMAL_DIGIT_SPRITES_LENGTH}
                                  \cup {PROGRAM_START_ADDRESS + i - 1 :
                                            i \in {k \in 1 .. Len(game_data) :
                                                       game_data[k] # 0}} |->
                            IF a < HEXADECIMAL_DIGIT_SPRITES_LENGTH THEN s.ram[a]
                            ELSE game_data[a - PROGRAM_START_ADDRESS + 1]],
                 !.registers = [r \in 0 .. REGISTERS_SIZE - 1 |-> 0],
                 !.register_i = 0,
                 !.delay_timer = 0,
                 !.sound_timer = 0,
                 !.keyboard = {},
                 !.should_wait_for_key = FALSE,
                 !.wait_for_key_register = 0,
                 !.should_wait_for_display_refresh = FALSE,
                 !.wait_for_display_refresh_data = <<0, 0, 0>>]
        s2 == clear_screen(set_audio_status(s1))
    IN [s2 EXCEPT !.program_counter = PROGRAM_START_ADDRESS, !.is_running = TRUE]

\* Interpreter::load_game: a game that does not fit in memory panics on the copy
load_game(s, game_data) ==
    IF PROGRAM_START_ADDRESS + Len(game_data) > RAM_SIZE THEN Panic(s)
    ELSE
    LET s1 == [s EXCEPT
                 !.ram = [a \in {b \in DOMAIN s.ram : b < HEXADECIMAL_DIGIT_SPRITES_LENGTH}
                                  \cup {PROGRAM_START_ADDRESS + i - 1 :
                                            i \in {k \in 1 .. Len(game_data) :
                                                       game_data[k] # 0}} |->
                            IF a < HEXADECIMAL_DIGIT_SPRITES_LENGTH THEN s.ram[a]
                            ELSE game_data[a - PROGRAM_START_ADDRESS + 1]],
                 !.registers = [r \in 0 .. REGISTERS_SIZE - 1 |-> 0],
                 !.register_i = 0,
                 !.delay_timer = 0,
                 !.sound_timer = 0,
                 !.stack_pointer = 0,
                 !.stack = [k \in 0 .. STACK_SIZE - 1 |-> 0],
                 !.keyboard = {},
                 !.should_wait_for_key = FALSE,
                 !.wait_for_key_register = 0,
                 !.should_wait_for_display_refresh = FALSE,
                 !.wait_for_display_refresh_data = <<0, 0, 0>>]
        s2 == clear_screen(set_audio_status(s1))
    IN [s2 EXCEPT !.program_counter = PROGRAM_START_ADDRESS, !.is_running = TRUE]

\* Interpreter::get_key_mapping: Some(key) is {key}, None is {}
get_key_mapping(keycode) ==
    CASE keycode = "Num1" -> {\h1}
      [] keycode = "Num2" -> {\h2}
      [] keycode = "Num3" -> {\h3}
      [] keycode = "Num4" -> {\hC}
      [] keycode = "Q" -> {\h4}
      [] keycode = "W" -> {\h5}
      [] keycode = "E" -> {\h6}
      [] keycode = "R" -> {\hD}
      [] keycode = "A" -> {\h7}
      [] keycode = "S" -> {\h8}
      [] keycode = "D" -> {\h9}
      [] keycode = "F" -> {\hE}
      [] keycode = "Z" -> {\hA}
      [] keycode = "X" -> {\h0}
      [] keycode = "C" -> {\hB}
      [] keycode = "V" -> {\hF}
      [] OTHER -> {}

\* handle_key_press without the store to the waiting register
handle_key_press_without_latch(s, keycode) ==
    IF get_key_mapping(keycode) = {} THEN s
    ELSE [s EXCEPT !.keyboard = @ \cup get_key_mapping(keycode)]

\* handle_key_press writing the key to the wait register whether or not a key is awaited
handle_key_press_always_latching(s, keycode) ==
    IF get_key_mapping(keycode) = {} THEN s
    ELSE
    LET key == CHOOSE k \in get_key_mapping(keycode) : TRUE
    IN [s EXCEPT !.registers[s.wait_for_key_register] = key,
                 !.keyboard = @ \cup {key}]

\* Interpreter::handle_key_press
handle_key_press(s, keycode) ==
    IF get_key_mapping(keycode) = {} THEN s
    ELSE
    LET key == CHOOSE k \in get_key_mapping(keycode) : TRUE
        s1 == IF s.should_wait_for_key
                  THEN [s EXCEPT !.registers[s.wait_for_key_register] = key]
                  ELSE s
    IN [s1 EXCEPT !.keyboard = @ \cup {key}]

\* handle_key_release lifting the key wait on the release of any mapped key
handle_key_release_of_any_key(s, keycode) ==
    IF get_key_mapping(keycode) = {} THEN s
    ELSE [s EXCEPT !.keyboard = @ \ get_key_mapping(keycode),
                   !.should_wait_for_key = FALSE]

\* handle_key_release forgetting every pressed key
handle_key_release_of_every_key(s, keycode) ==
    IF get_key_mapping(keycode) = {} THEN s
    ELSE
    LET key == CHOOSE k \in get_key_mapping(keycode) : TRUE
        s1 == [s EXCEPT !.keyboard = {}]
    IN IF s1.should_wait_for_key /\ s1.registers[s1.wait_for_key_register] = key
           THEN [s1 EXCEPT !.should_wait_for_key = FALSE]
           ELSE s1

\* Interpreter::handle_key_release
handle_key_release(s, keycode) ==
    IF get_key_mapping(keycode) = {} THEN s
    ELSE
    LET key == CHOOSE k \in get_key_mapping(keycode) : TRUE
        s1 == [s EXCEPT !.keyboard = @ \ {key}]
    IN IF s1.should_wait_for_key /\ s1.registers[s1.wait_for_key_register] = key
           THEN [s1 EXCEPT !.should_wait_for_key = FALSE]
           ELSE s1

\* handle_timers with a wrapping decrement
handle_timers_wrapping(s) ==
    LET old_sound_timer == s.sound_timer
        s1 == [s EXCEPT !.sound_timer = (@ - 1) % U8_MODULUS,
                        !.delay_timer = (@ - 1) % U8_MODULUS]
    IN IF old_sound_timer # 0 /\ s1.sound_timer = 0 THEN set_audio_status(s1) ELSE s1

\* Interpreter::handle_timers
handle_timers(s) ==
    LET old_sound_timer == s.sound_timer
        s1 == [s EXCEPT !.sound_timer = saturating_sub(@, 1),
                        !.delay_timer = saturating_sub(@, 1)]
    IN IF old_sound_timer # 0 /\ s1.sound_timer = 0 THEN set_audio_status(s1) ELSE s1

(***************************************************************************)
(* Opcode handlers.  An `x += y` on a u16 / u8 / usize panics on overflow  *)
(* in a build with overflow checks and wraps otherwise; an index outside   *)
(* an array always panics.                                                 *)
(***************************************************************************)
\* self.program_counter += PROGRAM_COUNTER_INCREMENT
advance_program_counter(s) ==
    LET sum == s.program_counter + PROGRAM_COUNTER_INCREMENT
    IN IF sum >= U16_MODULUS /\ overflow_checks THEN Panic(s)
       ELSE [s EXCEPT !.program_counter = sum % U16_MODULUS]

\* handle_reset_quirk leaving VF alone whatever the reset quirk
handle_reset_quirk_never(s) == s

handle_reset_quirk(s) ==
    IF s.quirk_config.reset_vf = "Reset" THEN [s EXCEPT !.registers[REGISTER_F] = 0]
    ELSE s

\* handle_memory_increment_quirk incrementing I whatever the memory quirk
handle_memory_increment_quirk_always(s) ==
    IF s.register_i + 1 >= U16_MODULUS /\ overflow_checks THEN Panic(s)
    ELSE [s EXCEPT !.register_i = (@ + 1) % U16_MODULUS]

handle_memory_increment_quirk(s) ==
    IF s.quirk_config.memory = "Increment"
        THEN LET sum == s.register_i + 1
             IN IF sum >= U16_MODULUS /\ overflow_checks THEN Panic(s)
                ELSE [s EXCEPT !.register_i = sum % U16_MODULUS]
    ELSE s

jump_addr(s, address) == [s EXCEPT !.program_counter = address]

skip_register_equals_value(s, register, value) ==
    IF s.registers[register] = value THEN advance_program_counter(s) ELSE s

skip_register_not_equals_value(s, register, value) ==
    IF s.registers[register] # value THEN advance_program_counter(s) ELSE s

skip_registers_equal(s, first_register, second_register) ==
    IF s.registers[first_register] = s.registers[second_register]
        THEN advance_program_counter(s) ELSE s

skip_registers_not_equal(s, first_register, second_register) ==
    IF s.registers[first_register] # s.registers[second_register]
        THEN advance_program_counter(s) ELSE s

load_value(s, register, value) == [s EXCEPT !.registers[register] = value]

add_value(s, register, value) ==
    [s EXCEPT !.registers[register] = BitAnd(s.registers[register] + value, BYTE_MASK)]

load_register_value(s, first_register, second_register) ==
    [s EXCEPT !.registers[first_register] = s.registers[second_register]]

or(s, first_register, second_register) ==
    handle_reset_quirk(
        [s EXCEPT !.registers[first_register] =
                      BitOr(s.registers[first_register], s.registers[second_register])])

and(s, first_register, second_register) ==
    handle_reset_quirk(
        [s EXCEPT !.registers[first_register] =
                      BitAnd(s.registers[first_register], s.registers[second_register])])

xor(s, first_register, second_register) ==
    handle_reset_quirk(
        [s EXCEPT !.registers[first_register] =
                      BitXor(s.registers[first_register], s.registers[second_register])])

\* random_byte is the byte rand::random() returned
random(s, register, value, random_byte) ==
    [s EXCEPT !.registers[register] = BitAnd(random_byte, value)]

\* store_registers addressing every register at I, whatever the memory quirk
store_registers_without_offset(s, register) ==
    LET RECURSIVE loop(_, _)
        loop(t, i) ==
            IF i > register THEN t
            ELSE IF t.register_i >= RAM_SIZE THEN Panic(t)
            ELSE LET t1 == handle_memory_increment_quirk(
                               [t EXCEPT !.ram = ram_set(@, t.register_i, t.registers[i])])
                 IN IF t1.panicked THEN t1 ELSE loop(t1, i + 1)
    IN loop(s, 0)

store_registers(s, register) ==
    LET RECURSIVE loop(_, _)
        loop(t, i) ==
            IF i > register THEN t
            ELSE LET index_adjustment == IF t.quirk_config.memory = "Increment" THEN 0 ELSE i
                     index == t.register_i + index_adjustment
                 IN IF index >= RAM_SIZE THEN Panic(t)
                    ELSE LET t1 == handle_memory_increment_quirk(
                                       [t EXCEPT !.ram = ram_set(@, index, t.registers[i])])
                         IN IF t1.panicked THEN t1 ELSE loop(t1, i + 1)
    IN loop(s, 0)

load_registers(s, register) ==
    LET RECURSIVE loop(_, _)
        loop(t, i) ==
            IF i > register THEN t
            ELSE LET index_adjustment == IF t.quirk_config.memory = "Increment" THEN 0 ELSE i
                     index == t.register_i + index_adjustment
                 IN IF index >= RAM_SIZE THEN Panic(t)
                    ELSE LET t1 == handle_memory_increment_quirk(
                                       [t EXCEPT !.registers[i] = ram_get(t.ram, index)])
                         IN IF t1.panicked THEN t1 ELSE loop(t1, i + 1)
    IN loop(s, 0)

load_register_i(s, address) == [s EXCEPT !.register_i = address]

\* jump_address_v0 adding V0 whatever the jumping quirk
jump_address_v0_always_v0(s, address) == jump_addr(s, address + s.registers[0])

jump_address_v0(s, address) ==
    LET target_register == IF s.quirk_config.jumping = "V0" THEN 0
                           ELSE ShiftRight(BitAnd(address, \hF00), 8)
    IN jump_addr(s, address + s.registers[target_register])

load_delay_timer(s, register) == [s EXCEPT !.registers[register] = s.delay_timer]

set_delay_timer(s, register) == [s EXCEPT !.delay_timer = s.registers[register]]

\* set_sound_timer without the call of set_audio_status
set_sound_timer_silently(s, register) == [s EXCEPT !.sound_timer = s.registers[register]]

set_sound_timer(s, register) ==
    set_audio_status([s EXCEPT !.sound_timer = s.registers[register]])

add_register_i(s, register) ==
    LET sum == s.register_i + s.registers[register]
    IN IF sum >= U16_MODULUS /\ overflow_checks THEN Panic(s)
       ELSE [s EXCEPT !.register_i = sum % U16_MODULUS]

\* add_registers raising the flag from a sum of 255
add_registers_carry_at_255(s, first_register, second_register) ==
    LET sum == s.registers[first_register] + s.registers[second_register]
        s1 == [s EXCEPT !.registers[first_register] = BitAnd(sum, BYTE_MASK)]
    IN [s1 EXCEPT !.registers[REGISTER_F] = IF sum >= BYTE_MASK THEN 1 ELSE 0]

\* add_registers writing the flag before the sum
add_registers_flag_first(s, first_register, second_register) ==
    LET sum == s.registers[first_register] + s.registers[second_register]
        s1 == [s EXCEPT !.registers[REGISTER_F] = IF sum > BYTE_MASK THEN 1 ELSE 0]
    IN [s1 EXCEPT !.registers[first_register] = BitAnd(sum, BYTE_MASK)]

add_registers(s, first_register, second_register) ==
    LET sum == s.registers[first_register] + s.registers[second_register]
        max_u8 == BYTE_MASK
        s1 == [s EXCEPT !.registers[first_register] = BitAnd(sum, max_u8)]
    IN [s1 EXCEPT !.registers[REGISTER_F] = IF sum > max_u8 THEN 1 ELSE 0]

\* bounded_subtraction raising the flag only when the minuend is strictly greater
bounded_subtraction_strict(s, minuend_register, subtrahend_register, result_register) ==
    LET raw == s.registers[minuend_register] - s.registers[subtrahend_register]
        s1 == [s EXCEPT !.registers[result_register] = raw % U8_MODULUS]
    IN [s1 EXCEPT !.registers[REGISTER_F] = IF raw > 0 THEN 1 ELSE 0]

\* u8::overflowing_sub, then the two stores
bounded_subtraction(s, minuend_register, subtrahend_register, result_register) ==
    LET raw == s.registers[minuend_register] - s.registers[subtrahend_register]
        difference == raw % U8_MODULUS
        did_underflow == raw < 0
        s1 == [s EXCEPT !.registers[result_register] = difference]
    IN [s1 EXCEPT !.registers[REGISTER_F] = IF did_underflow THEN 0 ELSE 1]

\* bit_shift_right shifting Vx whatever the shifting quirk
bit_shift_right_of_first_register(s, first_register, second_register) ==
    LET will_bit_run_off == s.registers[first_register] % 2
        s1 == [s EXCEPT !.registers[first_register] = ShiftRight(s.registers[first_register], 1)]
    IN [s1 EXCEPT !.registers[REGISTER_F] = will_bit_run_off]

bit_shift_right(s, first_register, second_register) ==
    LET target_shift_register ==
            IF s.quirk_config.shifting = "Vy" THEN second_register ELSE first_register
        will_bit_run_off ==
            IF BitAnd(s.registers[target_shift_register], LEAST_SIGNIFICANT_BIT_MASK) = 1
                THEN 1 ELSE 0
        s1 == [s EXCEPT !.registers[first_register] =
                            ShiftRight(s.registers[target_shift_register], 1)]
    IN [s1 EXCEPT !.registers[REGISTER_F] = will_bit_run_off]

bit_shift_left(s, first_register, second_register) ==
    LET target_shift_register ==
            IF s.quirk_config.shifting = "Vy" THEN second_register ELSE first_register
        will_bit_run_off ==
            IF ShiftRight(BitAnd(s.registers[target_shift_register],
                                 MOST_SIGNIFICANT_BIT_MASK), 7) = 1
                THEN 1 ELSE 0
        s1 == [s EXCEPT !.registers[first_register] =
                            ShiftLeftU8(s.registers[target_shift_register], 1)]
    IN [s1 EXCEPT !.registers[REGISTER_F] = will_bit_run_off]

\* binary_coded_decimal writing the units first
binary_coded_decimal_units_first(s, register) ==
    LET value == s.registers[register]
        digits == << value % 10, (value \div 10) % 10, value \div 100 >>
    IN IF s.register_i + 2 >= RAM_SIZE THEN Panic(s)
       ELSE [s EXCEPT !.ram = ram_set(ram_set(ram_set(@, s.register_i, digits[1]),
                                              s.register_i + 1, digits[2]),
                                      s.register_i + 2, digits[3])]

\* for i in (0..=2).rev(): ram[register_i + i] = value % 10; value /= 10
binary_coded_decimal(s, register) ==
    LET RECURSIVE loop(_, _, _)
        loop(t, i, value) ==
            IF i < 0 THEN t
            ELSE LET sum == t.register_i + i
                     index == sum % U16_MODULUS
                 IN IF sum >= U16_MODULUS /\ overflow_checks THEN Panic(t)
                    ELSE IF index >= RAM_SIZE THEN Panic(t)
                    ELSE loop([t EXCEPT !.ram = ram_set(@, index, value % 10)], i - 1, value \div 10)
    IN loop(s, 2, s.registers[register])

\* call_addr jumping without saving the program counter
call_addr_without_push(s, address) ==
    [s EXCEPT !.program_counter = address]

\* call_addr moving the stack pointer past the last slot instead of panicking
call_addr_past_the_stack(s, address) ==
    [s EXCEPT !.stack = IF s.stack_pointer < STACK_SIZE
                            THEN [@ EXCEPT ![s.stack_pointer] = s.program_counter]
                            ELSE @,
              !.stack_pointer = @ + 1,
              !.program_counter = address]

call_addr(s, address) ==
    IF s.stack_pointer >= STACK_SIZE THEN Panic(s)
    ELSE [s EXCEPT !.stack[s.stack_pointer] = s.program_counter,
                   !.stack_pointer = @ + 1,
                   !.program_counter = address]

\* return_from_subroutine reading the slot at the stack pointer
return_from_subroutine_at_pointer(s) ==
    IF s.stack_pointer = 0 \/ s.stack_pointer >= STACK_SIZE THEN Panic(s)
    ELSE [s EXCEPT !.program_counter = s.stack[s.stack_pointer],
                   !.stack_pointer = @ - 1]

\* stack_pointer - 1 underflows at depth 0: a panic with overflow checks, and without
\* them an index of usize::MAX, which panics as well
return_from_subroutine(s) ==
    IF s.stack_pointer = 0 THEN Panic(s)
    ELSE IF s.stack_pointer - 1 >= STACK_SIZE THEN Panic(s)
    ELSE [s EXCEPT !.program_counter = s.stack[s.stack_pointer - 1],
                   !.stack_pointer = @ - 1]

\* registers[register] * HEXADECIMAL_DIGIT_SPRITE_LENGTH is a u8 product
set_register_i_hex_sprite_location(s, register) ==
    LET product == s.registers[register] * HEXADECIMAL_DIGIT_SPRITE_LENGTH
    IN IF product >= U8_MODULUS /\ overflow_checks THEN Panic(s)
       ELSE [s EXCEPT !.register_i = product % U8_MODULUS]

skip_key_pressed(s, register) ==
    IF s.registers[register] \in s.keyboard THEN advance_program_counter(s) ELSE s

\* skip_key_not_pressed skipping only when no key at all is pressed
skip_when_no_key_pressed(s, register) ==
    IF s.keyboard = {} THEN advance_program_counter(s) ELSE s

skip_key_not_pressed(s, register) ==
    IF s.registers[register] \notin s.keyboard THEN advance_program_counter(s) ELSE s

load_key_press(s, register) ==
    [s EXCEPT !.should_wait_for_key = TRUE, !.wait_for_key_register = register]

\* draw without the store of the operands
draw_forgetting_operands(s, first_register, second_register, length) ==
    [s EXCEPT !.should_wait_for_display_refresh = TRUE]

\* draw blanking the screen while the draw waits for the display refresh
draw_blanking_screen(s, first_register, second_register, length) ==
    [s EXCEPT !.should_wait_for_display_refresh = TRUE,
              !.wait_for_display_refresh_data = <<first_register, second_register, length>>,
              !.drawing_buffer = {}]

\* draw recording its coordinate registers in the other order
draw_with_swapped_registers(s, first_register, second_register, length) ==
    [s EXCEPT !.should_wait_for_display_refresh = TRUE,
              !.wait_for_display_refresh_data = <<second_register, first_register, length>>]

draw(s, first_register, second_register, length) ==
    [s EXCEPT !.should_wait_for_display_refresh = TRUE,
              !.wait_for_display_refresh_data = <<first_register, second_register, length>>]

\* the inner loop of complete_draw setting a pixel when the sprite bit or the pixel is set
draw_sprite_row_or(s, base_x, buffer_y, sprite_byte) ==
    LET RECURSIVE loop(_, _)
        loop(t, j) ==
            IF j >= 8 THEN t
            ELSE IF t.quirk_config.clipping = "Clip" /\ base_x + j >= SCREEN_WIDTH
                THEN loop(t, j + 1)
            ELSE LET drawing_buffer_index == buffer_y * SCREEN_WIDTH + ((base_x + j) % SCREEN_WIDTH)
                     target_bit == Bit(sprite_byte, 7 - j)
                     display_bit == pixel_get(t.drawing_buffer, drawing_buffer_index)
                     t1 == IF display_bit /\ target_bit = 1
                               THEN [t EXCEPT !.registers[REGISTER_F] = 1] ELSE t
                 IN loop([t1 EXCEPT !.drawing_buffer =
                              pixel_set(@, drawing_buffer_index, display_bit \/ target_bit = 1)],
                         j + 1)
    IN loop(s, 0)

\* the inner loop of complete_draw wrapping the columns whatever the clipping quirk
draw_sprite_row_wrapping(s, base_x, buffer_y, sprite_byte) ==
    LET RECURSIVE loop(_, _)
        loop(t, j) ==
            IF j >= 8 THEN t
            ELSE LET drawing_buffer_index == buffer_y * SCREEN_WIDTH + ((base_x + j) % SCREEN_WIDTH)
                     target_bit == Bit(sprite_byte, 7 - j)
                     display_bit == pixel_get(t.drawing_buffer, drawing_buffer_index)
                     t1 == IF display_bit /\ target_bit = 1
                               THEN [t EXCEPT !.registers[REGISTER_F] = 1] ELSE t
                 IN loop([t1 EXCEPT !.drawing_buffer =
                              pixel_set(@, drawing_buffer_index, display_bit # (target_bit = 1))],
                         j + 1)
    IN loop(s, 0)

\* the inner loop of complete_draw: the 8 bits of one sprite byte on row buffer_y
draw_sprite_row(s, base_x, buffer_y, sprite_byte) ==
    LET RECURSIVE loop(_, _)
        loop(t, j) ==
            IF j >= 8 THEN t
            ELSE IF t.quirk_config.clipping = "Clip" /\ base_x + j >= SCREEN_WIDTH
                THEN loop(t, j + 1)
            ELSE LET buffer_x == IF t.quirk_config.clipping = "Wrap"
                                     THEN (base_x + j) % SCREEN_WIDTH ELSE base_x + j
                     target_bit == BitAnd(ShiftRight(sprite_byte, 7 - j), 1)
                     drawing_buffer_index == buffer_y * SCREEN_WIDTH + buffer_x
                     display_bit == pixel_get(t.drawing_buffer, drawing_buffer_index)
                     t1 == IF display_bit /\ target_bit = 1
                               THEN [t EXCEPT !.registers[REGISTER_F] = 1] ELSE t
                     is_set == display_bit # (target_bit = 1)
                 IN loop([t1 EXCEPT !.drawing_buffer =
                                      pixel_set(@, drawing_buffer_index, is_set)], j + 1)
    IN loop(s, 0)

\* complete_draw keeping the value VF has when the draw starts
complete_draw_without_flag_reset(s, first_register, second_register, length) ==
    LET base_x == s.registers[first_register] % SCREEN_WIDTH
        base_y == s.registers[second_register] % SCREEN_HEIGHT
        RECURSIVE loop(_, _)
        loop(t, i) ==
            IF i >= length THEN t
            ELSE IF t.quirk_config.clipping = "Clip" /\ base_y + i >= SCREEN_HEIGHT
                THEN loop(t, i + 1)
            ELSE IF t.register_i + i >= RAM_SIZE THEN Panic(t)
            ELSE loop(draw_sprite_row(t, base_x, (base_y + i) % SCREEN_HEIGHT,
                                      ram_get(t.ram, t.register_i + i)), i + 1)
    IN loop(s, 0)

complete_draw(s, first_register, second_register, length) ==
    LET base_x == s.registers[first_register] % SCREEN_WIDTH
        base_y == s.registers[second_register] % SCREEN_HEIGHT
        RECURSIVE loop(_, _)
        loop(t, i) ==
            IF i >= length THEN t
            ELSE IF t.quirk_config.clipping = "Clip" /\ base_y + i >= SCREEN_HEIGHT
                THEN loop(t, i + 1)
            ELSE LET buffer_y == IF t.quirk_config.clipping = "Wrap"
                                     THEN (base_y + i) % SCREEN_HEIGHT ELSE base_y + i
                     sum == t.register_i + i
                     index == sum % U16_MODULUS
                 IN IF sum >= U16_MODULUS /\ overflow_checks THEN Panic(t)
                    ELSE IF index >= RAM_SIZE THEN Panic(t)
                    ELSE loop(draw_sprite_row(t, base_x, buffer_y, ram_get(t.ram, index)), i + 1)
    IN loop([s EXCEPT !.registers[REGISTER_F] = 0], 0)

\* Interpreter::handle_opcode: the match on the opcode
handle_opcode(s, opcode, random_byte) ==
    LET n == opcode.name
        a == opcode.args
    IN
    CASE n = "ClearScreen" -> clear_screen(s)
      [] n = "Return" -> return_from_subroutine(s)
      [] n = "JumpAddr" -> jump_addr(s, a[1])
      [] n \in {"SystemAddr", "CallAddr"} -> call_addr(s, a[1])
      [] n = "SkipRegisterEqualsValue" -> skip_register_equals_value(s, a[1], a[2])
      [] n = "SkipRegisterNotEqualsValue" -> skip_register_not_equals_value(s, a[1], a[2])
      [] n = "SkipRegistersEqual" -> skip_registers_equal(s, a[1], a[2])
      [] n = "LoadValue" -> load_value(s, a[1], a[2])
      [] n = "AddValue" -> add_value(s, a[1], a[2])
      [] n = "LoadRegisterValue" -> load_register_value(s, a[1], a[2])
      [] n = "Or" -> or(s, a[1], a[2])
      [] n = "And" -> and(s, a[1], a[2])
      [] n = "Xor" -> xor(s, a[1], a[2])
      [] n = "AddRegisters" -> add_registers(s, a[1], a[2])
      [] n = "SubtractFromFirstRegister" -> bounded_subtraction(s, a[1], a[2], a[1])
      [] n = "BitShiftRight" -> bit_shift_right(s, a[1], a[2])
      [] n = "SubtractFromSecondRegister" -> bounded_subtraction(s, a[2], a[1], a[1])
      [] n = "BitShiftLeft" -> bit_shift_left(s, a[1], a[2])
      [] n = "SkipRegistersNotEqual" -> skip_registers_not_equal(s, a[1], a[2])
      [] n = "LoadRegisterI" -> load_register_i(s, a[1])
      [] n = "JumpAddrV0" -> jump_address_v0(s, a[1])
      [] n = "Random" -> random(s, a[1], a[2], random_byte)
      [] n = "Draw" ->
            IF s.quirk_config.display_wait = "Wait" THEN draw(s, a[1], a[2], a[3])
            ELSE complete_draw(s, a[1], a[2], a[3])
      [] n = "SkipKeyPressed" -> skip_key_pressed(s, a[1])
      [] n = "SkipKeyNotPressed" -> skip_key_not_pressed(s, a[1])
      [] n = "LoadDelayTimer" -> load_delay_timer(s, a[1])
      [] n = "LoadKeyPress" -> load_key_press(s, a[1])
      [] n = "SetDelayTimer" -> set_delay_timer(s, a[1])
      [] n = "SetSoundTimer" -> set_sound_timer(s, a[1])
      [] n = "AddRegisterI" -> add_register_i(s, a[1])
      [] n = "SetIHexSpriteLocation" -> set_register_i_hex_sprite_location(s, a[1])
      [] n = "BinaryCodedDecimal" -> binary_coded_decimal(s, a[1])
      [] n = "StoreRegisters" -> store_registers(s, a[1])
      [] n = "LoadRegisters" -> load_registers(s, a[1])

\* the early return of handle_cycle without the display-refresh flag
cycle_is_skipped_ignoring_refresh(s) == ~s.is_running \/ s.should_wait_for_key

\* the early return of handle_cycle without the running flag
cycle_is_skipped_when_suspended(s) ==
    s.should_wait_for_key \/ s.should_wait_for_display_refresh

\* the early return of handle_cycle
cycle_is_skipped(s) ==
    ~s.is_running \/ s.should_wait_for_key \/ s.should_wait_for_display_refresh

\* the opcode handle_cycle fetches: the slice ram[pc ..= pc + 1] panics past the end of ram
fetch_opcode(s) ==
    IF s.program_counter + 1 >= RAM_SIZE
        THEN [name |-> "panic: range end index out of range", args |-> <<s.program_counter>>]
    ELSE get_opcode(ram_get(s.ram, s.program_counter),
                    ram_get(s.ram, s.program_counter + 1))

is_panic(opcode) == opcode.name \notin
    { "ClearScreen", "Return", "JumpAddr", "SystemAddr", "CallAddr",
      "SkipRegisterEqualsValue", "SkipRegisterNotEqualsValue", "SkipRegistersEqual",
      "LoadValue", "AddValue", "LoadRegisterValue", "Or", "And", "Xor", "AddRegisters",
      "SubtractFromFirstRegister", "BitShiftRight", "SubtractFromSecondRegister",
      "BitShiftLeft", "SkipRegistersNotEqual", "LoadRegisterI", "JumpAddrV0", "Random",
      "Draw", "SkipKeyPressed", "SkipKeyNotPressed", "LoadDelayTimer", "LoadKeyPress",
      "SetDelayTimer", "SetSoundTimer", "AddRegisterI", "SetIHexSpriteLocation",
      "BinaryCodedDecimal", "StoreRegisters", "LoadRegisters" }

\* handle_cycle advancing the program counter after the dispatch
handle_cycle_advancing_last(s, random_byte) ==
    IF cycle_is_skipped(s) THEN s
    ELSE LET opcode == fetch_opcode(s)
         IN IF is_panic(opcode) THEN Panic(s)
            ELSE LET s1 == handle_opcode(s, opcode, random_byte)
                 IN IF s1.panicked THEN s1 ELSE advance_program_counter(s1)

\* handle_cycle stepping over a word that does not decode
handle_cycle_skipping_unrecognized(s, random_byte) ==
    IF cycle_is_skipped(s) THEN s
    ELSE LET opcode == fetch_opcode(s)
         IN IF opcode.name = "panic: Unrecognized opcode" THEN advance_program_counter(s)
            ELSE IF is_panic(opcode) THEN Panic(s)
            ELSE LET s1 == advance_program_counter(s)
                 IN IF s1.panicked THEN s1 ELSE handle_opcode(s1, opcode, random_byte)

\* Interpreter::handle_cycle
handle_cycle(s, random_byte) ==
    IF cycle_is_skipped(s) THEN s
    ELSE LET opcode == fetch_opcode(s)
         IN IF is_panic(opcode) THEN Panic(s)
            ELSE LET s1 == advance_program_counter(s)
                 IN IF s1.panicked THEN s1 ELSE handle_opcode(s1, opcode, random_byte)

\* handle_frame completing the pending draw without clearing the flag
handle_frame_keeping_flag(s) ==
    IF ~s.is_running THEN s
    ELSE LET s1 == handle_timers(s)
         IN IF s1.should_wait_for_display_refresh
                THEN complete_draw(s1, s1.wait_for_display_refresh_data[1],
                                   s1.wait_for_display_refresh_data[2],
                                   s1.wait_for_display_refresh_data[3])
            ELSE s1

\* handle_frame returning early while the interpreter waits for a key
handle_frame_idle_in_key_wait(s) ==
    IF ~s.is_running \/ s.should_wait_for_key THEN s
    ELSE LET s1 == handle_frame_keeping_flag(s)
         IN IF s1.panicked THEN s1
            ELSE [s1 EXCEPT !.should_wait_for_display_refresh = FALSE]

\* Interpreter::handle_frame
handle_frame(s) ==
    IF ~s.is_running THEN s
    ELSE LET s1 == handle_timers(s)
         IN IF s1.should_wait_for_display_refresh
                THEN LET s2 == complete_draw(s1, s1.wait_for_display_refresh_data[1],
                                             s1.wait_for_display_refresh_data[2],
                                             s1.wait_for_display_refresh_data[3])
                     IN IF s2.panicked THEN s2
                        ELSE [s2 EXCEPT !.should_wait_for_display_refresh = FALSE]
            ELSE s1

(***************************************************************************)
(* Inputs                                                                  *)
(***************************************************************************)
\* the bytes of a game file, from its big-endian instruction words
GameData(words) ==
    [k \in 1 .. 2 * Len(words) |->
        IF k % 2 = 1 THEN words[(k + 1) \div 2] \div 256 ELSE words[k \div 2] % 256]

\* sound and delay timers, then a key wait in a loop
KeyGame ==
    GameData(<< \h6A02,     \* 200: VA = 2
                \hFA18,     \* 202: sound timer = VA
                \hFA15,     \* 204: delay timer = VA
                \hF50A,     \* 206: V5 = key press (and release)
                \h7501,     \* 208: V5 += 1
                \h1206 >>)  \* 20A: jump to 206

\* two draws with different operands, a key wait and a clear, in a loop
DrawGame ==
    GameData(<< \h603E,     \* 200: V0 = 62
                \h611E,     \* 202: V1 = 30
                \hA005,     \* 204: I = 5 (the glyph of 1)
                \hD013,     \* 206: draw 3 rows at (V0, V1)
                \hD103,     \* 208: draw 3 rows at (V1, V0)
                \hF30A,     \* 20A: V3 = key press
                \h00E0,     \* 20C: clear the screen
                \h1206 >>)  \* 20E: jump to 206

\* the sound timer set, read back and silenced
ToneGame ==
    GameData(<< \h6002,     \* 200: V0 = 2
                \hF018,     \* 202: sound timer = V0
                \hF015,     \* 204: delay timer = V0
                \hF107,     \* 206: V1 = delay timer
                \h6000,     \* 208: V0 = 0
                \hF018,     \* 20A: sound timer = V0
                \hC101,     \* 20C: V1 = random & 1
                \h1200 >>)  \* 20E: jump to 200

Games == { KeyGame, DrawGame, ToneGame }

\* physical keys: X is key 0, Q is key 4, G is not mapped
Keycodes == { "X", "Q", "G" }

\* bytes rand::random() may return
RandomBytes == { \h00, \hFF }

\* what a session is constructed with: the audio device ("None", or a device, which
\* SDL opens paused), the quirks, and whether the build checks integer overflow
Session(device, config, checks) ==
    [audio_device |-> device, quirk_config |-> config, overflow_checks |-> checks]

Sessions ==
    { Session("Paused", QuirkConfig_new, TRUE),
      Session("Paused", [QuirkConfig_new EXCEPT !.display_wait = "NoWait"], TRUE),
      Session("Paused", [QuirkConfig_new EXCEPT !.clipping = "Wrap"], FALSE),
      Session("Paused", [QuirkConfig_new EXCEPT !.display_wait = "NoWait",
                                                !.clipping = "Wrap"], FALSE),
      Session("None", QuirkConfig_new, FALSE),
      Session("None", [QuirkConfig_new EXCEPT !.display_wait = "NoWait"], TRUE) }

(***************************************************************************)
(* The state machine                                                       *)
(***************************************************************************)
NoOpcode == Opcode("", <<>>)

Op(name, keycode, opcode) == [name |-> name, keycode |-> keycode, opcode |-> opcode]

\* the interpreter is s
Holds(s) ==
    /\ is_running = s.is_running
    /\ ram = s.ram
    /\ registers = s.registers
    /\ register_i = s.register_i
    /\ delay_timer = s.delay_timer
    /\ sound_timer = s.sound_timer
    /\ program_counter = s.program_counter
    /\ stack_pointer = s.stack_pointer
    /\ stack = s.stack
    /\ keyboard = s.keyboard
    /\ should_wait_for_key = s.should_wait_for_key
    /\ wait_for_key_register = s.wait_for_key_register
    /\ should_wait_for_display_refresh = s.should_wait_for_display_refresh
    /\ wait_for_display_refresh_data = s.wait_for_display_refresh_data
    /\ drawing_buffer = s.drawing_buffer
    /\ audio_device = s.audio_device
    /\ quirk_config = s.quirk_config
    /\ panicked = s.panicked

\* the state after construction
Init ==
    /\ \E session \in Sessions :
          /\ Holds(new_with_sdl(session.audio_device, session.quirk_config))
          /\ overflow_checks = session.overflow_checks
    /\ last_op = Op("new_with_sdl", "", NoOpcode)
    /\ prev = self
    /\ key_latched = {}

\* one call of a public method: s is the interpreter it leaves
Step(op, s, latched) ==
    /\ ~panicked
    /\ Commit(s)
    /\ last_op' = op
    /\ prev' = self
    /\ key_latched' = latched
    /\ UNCHANGED overflow_checks

LoadGame ==
    \E game_data \in Games :
        Step(Op("load_game", "", NoOpcode), load_game(self, game_data), {})

HandleKeyPress ==
    \E keycode \in Keycodes :
        Step(Op("handle_key_press", keycode, NoOpcode), handle_key_press(self, keycode),
             IF should_wait_for_key /\ get_key_mapping(keycode) # {}
                 THEN get_key_mapping(keycode) ELSE key_latched)

HandleKeyRelease ==
    \E keycode \in Keycodes :
        Step(Op("handle_key_release", keycode, NoOpcode), handle_key_release(self, keycode),
             key_latched)

HandleCycle ==
    LET opcode == IF cycle_is_skipped(self) THEN NoOpcode ELSE fetch_opcode(self)
    IN \E random_byte \in (IF opcode.name = "Random" THEN RandomBytes ELSE {0}) :
          Step(Op("handle_cycle", "", opcode), handle_cycle(self, random_byte),
               IF opcode.name = "LoadKeyPress" THEN {} ELSE key_latched)

HandleFrame ==
    Step(Op("handle_frame", "", NoOpcode), handle_frame(self), key_latched)

Next ==
    \/ LoadGame
    \/ HandleKeyPress
    \/ HandleKeyRelease
    \/ HandleCycle
    \/ HandleFrame

Spec == Init /\ [][Next]_vars

(***************************************************************************)
(* One instruction on chosen operands.  A program loads V0, V1, V2, VF and  *)
(* I, executes one instruction and halts in a jump to itself; a behaviour   *)
(* starts when the five loads have run.                                     *)
(***************************************************************************)
\* the instruction word of nibbles n1 n2 n3 n4
Word(n1, n2, n3, n4) == n1 * 4096 + n2 * 256 + n3 * 16 + n4

\* values the program loads into V0 and V1
OperandBytes == { \h00, \h01, \h80, \hFF }

\* values the program loads into VF
FlagBytes == { \h01, \hDA }

\* values the program loads into I: the glyph of 1, free memory, the end of memory
IndexValues == { \h005, \h300, \hFFE }

\* the registers the instruction names
OperandRegisters == { \h0, \h1, \hF }

\* 8xyN: Or, And, Xor, AddRegisters, SubtractFromFirstRegister, BitShiftRight,
\* SubtractFromSecondRegister, BitShiftLeft
TwoRegisterWords ==
    { Word(\h8, x, y, n) : x \in OperandRegisters, y \in OperandRegisters,
                           n \in { \h1, \h2, \h3, \h4, \h5, \h6, \h7, \hE } }

\* Fx55, Fx65, Fx33, Fx1E: StoreRegisters, LoadRegisters, BinaryCodedDecimal, AddRegisterI
IndexWords ==
    { Word(\hF, x, n[1], n[2]) : x \in OperandRegisters,
                                 n \in { <<5, 5>>, <<6, 5>>, <<3, 3>>, <<1, \hE>> } }

\* Bnnn: JumpAddrV0
JumpWords == { Word(\hB, \h0, \h0, \h0), Word(\hB, \h1, \h2, \h3),
               Word(\hB, \hF, \h4, \h5), Word(\hB, \hF, \hF, \hF) }

\* Dxyn: Draw
DrawWords == { Word(\hD, \h0, \h1, \h3), Word(\hD, \hF, \h1, \h2), Word(\hD, \h0, \hF, \h1) }

\* the instruction and the value of I it runs with: I matters to those that use it
InstructionCases ==
    ((TwoRegisterWords \cup JumpWords) \X { \h300 })
        \cup ((IndexWords \cup DrawWords) \X IndexValues)

OperandGame(v0, v1, vf, index, word) ==
    GameData(<< \h6000 + v0,     \* 200: V0 = v0
                \h6100 + v1,     \* 202: V1 = v1
                \h622A,          \* 204: V2 = 2A
                \h6F00 + vf,     \* 206: VF = vf
                \hA000 + index,  \* 208: I = index
                word,            \* 20A: the instruction
                \h120C >>)       \* 20C: jump to 20C

\* the instructions of OperandGame before the one at 20A
OperandGameLoads == 5

OperandSessions ==
    { Session("Paused", QuirkConfig_new, TRUE),
      Session("Paused", [ reset_vf |-> "NoReset",
                          memory |-> "NoIncrement",
                          display_wait |-> "NoWait",
                          clipping |-> "Wrap",
                          shifting |-> "Vx",
                          jumping |-> "Vx" ], FALSE) }

\* the interpreter after n calls of handle_cycle
RECURSIVE cycles(_, _)
cycles(s, n) ==
    IF n = 0 THEN s
    ELSE CHOOSE after \in { handle_cycle(before, 0) : before \in { cycles(s, n - 1) } } : TRUE

InitOperands ==
    /\ \E session \in OperandSessions, v0 \in OperandBytes, v1 \in OperandBytes,
          vf \in FlagBytes, case \in InstructionCases :
          \E loaded \in { load_game(new_with_sdl(session.audio_device, session.quirk_config),
                                    OperandGame(v0, v1, vf, case[2], case[1])) } :
              \E before \in { cycles(loaded, OperandGameLoads - 1) } :
                  /\ Holds(handle_cycle(before, 0))
                  /\ prev = before
                  /\ last_op = Op("handle_cycle", "", fetch_opcode(before))
                  /\ overflow_checks = session.overflow_checks
    /\ key_latched = {}

NextOperands ==
    \/ HandleCycle
    \/ HandleFrame

OperandSpec == InitOperands /\ [][NextOperands]_vars

(***************************************************************************)
(* Whole programs: sprites drawn over one another, and nested subroutines.  *)
(* A behaviour starts when the game is loaded.                              *)
(***************************************************************************)
\* coordinates loaded into V0 and V1: inside the screen, at its edges, beyond it
SpriteXs == { 5, 62, 63, 69 }

SpriteYs == { 1, 30, 31, 33 }

\* the glyphs of 0 and of 1
SpriteIndexes == { \h000, \h005 }

SpriteHeights == { 2, 5 }

SpriteGame(x, y, index, height) ==
    GameData(<< \h6000 + x,       \* 200: V0 = x
                \h6100 + y,       \* 202: V1 = y
                \hA000 + index,   \* 204: I = index
                \hD010 + height,  \* 206: draw at (V0, V1) on the cleared screen
                \hD010 + height,  \* 208: the same draw again
                \hD010 + height,  \* 20A: and once more
                \h7001,           \* 20C: V0 = V0 + 1
                \hD010 + height,  \* 20E: draw one column to the right, over the sprite
                \hD010 + height,  \* 210: the same draw again
                \h00E0,           \* 212: clear the screen
                \h1214 >>)        \* 214: jump to 214

SpriteGames ==
    { SpriteGame(x, y, index, height) :
          x \in SpriteXs, y \in SpriteYs, index \in SpriteIndexes, height \in SpriteHeights }

\* a sprite at the origin, then sprites whose columns, rows or both run past the edge
\* and would land on it
EdgeGame(index, height) ==
    GameData(<< \h6000,           \* 200: V0 = 0
                \h6100,           \* 202: V1 = 0
                \hA000 + index,   \* 204: I = index
                \hD010 + height,  \* 206: draw at (0, 0)
                \h603F,           \* 208: V0 = 63
                \hD010 + height,  \* 20A: draw at (63, 0)
                \h6000,           \* 20C: V0 = 0
                \h611F,           \* 20E: V1 = 31
                \hD010 + height,  \* 210: draw at (0, 31)
                \h603F,           \* 212: V0 = 63
                \hD010 + height,  \* 214: draw at (63, 31)
                \h1216 >>)        \* 216: jump to 216

EdgeGames == { EdgeGame(index, height) : index \in SpriteIndexes, height \in SpriteHeights }

\* how deep the subroutines of a CallGame nest: STACK_SIZE fits, one more does not
CallDepths == { 1, 3, STACK_SIZE, STACK_SIZE + 1 }

\* where subroutine j of a CallGame starts
SubroutineAddress(j) == PROGRAM_START_ADDRESS + 4 * j

\* 200: call subroutine 1; 202: jump to 202; subroutine j: call subroutine j + 1
\* (the innermost: VA = depth), return
CallGame(depth) ==
    GameData([k \in 1 .. 2 * depth + 2 |->
                 IF k = 1 THEN \h2000 + SubroutineAddress(1)
                 ELSE IF k = 2 THEN \h1202
                 ELSE IF k % 2 = 0 THEN \h00EE
                 ELSE IF (k - 1) \div 2 < depth
                     THEN \h2000 + SubroutineAddress((k - 1) \div 2 + 1)
                 ELSE \h6A00 + depth])

CallGames == { CallGame(depth) : depth \in CallDepths }

ProgramSessions ==
    { Session("Paused", QuirkConfig_new, TRUE),
      Session("Paused", [QuirkConfig_new EXCEPT !.display_wait = "NoWait"], FALSE),
      Session("Paused", [QuirkConfig_new EXCEPT !.clipping = "Wrap"], FALSE),
      Session("Paused", [QuirkConfig_new EXCEPT !.display_wait = "NoWait",
                                                !.clipping = "Wrap"], TRUE) }

InitPrograms ==
    /\ \E session \in ProgramSessions, game_data \in SpriteGames \cup EdgeGames \cup CallGames :
          \E created \in { new_with_sdl(session.audio_device, session.quirk_config) } :
              /\ Holds(load_game(created, game_data))
              /\ prev = created
              /\ overflow_checks = session.overflow_checks
    /\ last_op = Op("load_game", "", NoOpcode)
    /\ key_latched = {}

ProgramSpec == InitPrograms /\ [][NextOperands]_vars

(***************************************************************************)
(* Decoding: a game whose first word is any instruction word, recognized   *)
(* or not, followed by a jump to itself.  A behaviour starts when the game  *)
(* is loaded and runs cycles only.                                          *)
(***************************************************************************)
DecodedFamilies == 0 .. 15

DecodedRegisters == 0 .. 15

DecodedSecondBytes == 0 .. 255

DecodedWords ==
    { Word(family, x, 0, 0) + second_byte :
          family \in DecodedFamilies, x \in DecodedRegisters,
          second_byte \in DecodedSecondBytes }

DecodeGame(word) == GameData(<< word, \h1202 >>)

InitDecoding ==
    /\ \E word \in DecodedWords :
          \E created \in { new_with_sdl("Paused", QuirkConfig_new) } :
              \E loaded \in { load_game(created, DecodeGame(word)) } :
                  /\ Holds(loaded)
                  /\ prev = created
    /\ overflow_checks = TRUE
    /\ last_op = Op("load_game", "", NoOpcode)
    /\ key_latched = {}

NextDecoding == HandleCycle

DecodeSpec == InitDecoding /\ [][NextDecoding]_vars

(***************************************************************************)
(* Reloading: games are loaded over one another, from every state a game    *)
(* can leave behind.  A behaviour starts at construction.                   *)
(***************************************************************************)
\* timers set, memory written below and above the program, a subroutine entered,
\* a sprite drawn and a key awaited
LeftoversGame ==
    GameData(<< \h6002,     \* 200: V0 = 2
                \hF015,     \* 202: delay timer = V0
                \hF018,     \* 204: sound timer = V0
                \hA300,     \* 206: I = 300
                \hF055,     \* 208: ram[300] = V0
                \hA000,     \* 20A: I = 0
                \hF055,     \* 20C: ram[0] = V0, over the glyph of 0
                \h2212,     \* 20E: call 212
                \h1210,     \* 210: jump to 210
                \hD005,     \* 212: draw 5 rows at (V0, V0)
                \hF10A,     \* 214: V1 = key press
                \h1216 >>)  \* 216: jump to 216

\* the most bytes that fit above the program start address
MaxGameLength == RAM_SIZE - PROGRAM_START_ADDRESS

\* a game that fills memory to its last byte
LargestGame ==
    [k \in 1 .. MaxGameLength |->
        IF k = 1 THEN \h12 ELSE IF k = MaxGameLength THEN \hFF ELSE \h00]

\* a game file without bytes
EmptyGame == GameData(<< >>)

ReloadGames == { LeftoversGame, LargestGame, EmptyGame }

ReloadSessions == { Session("Paused", QuirkConfig_new, TRUE) }

InitReload ==
    /\ \E session \in ReloadSessions :
          /\ Holds(new_with_sdl(session.audio_device, session.quirk_config))
          /\ overflow_checks = session.overflow_checks
    /\ last_op = Op("new_with_sdl", "", NoOpcode)
    /\ prev = self
    /\ key_latched = {}

Reload ==
    \E game_data \in ReloadGames :
        \E loaded \in { load_game(self, game_data) } :
            Step(Op("load_game", "", NoOpcode), loaded, {})

NextReload ==
    \/ Reload
    \/ HandleKeyPress
    \/ HandleKeyRelease
    \/ HandleCycle
    \/ HandleFrame

ReloadSpec == InitReload /\ [][NextReload]_vars

(***************************************************************************)
(* Every instruction on a lit screen, with keys pressed and released        *)
(* around it.  A behaviour starts when the game is loaded.                  *)
(***************************************************************************)
\* values the program loads into V0 and V1: the keys X and Q stand for
KeyValues == { \h0, \h4 }

\* the six conditional skips, on V0, V1 and the immediate 04
SkipWords == { \h3004, \h4004, \h5010, \h9010, \hE09E, \hE0A1 }

\* one word of every other instruction
OtherWords ==
    { \h00E0, \h020C, \h120A, \h220C, \h6133, \h7001, \h8010, \h8011, \h8012, \h8013,
      \h8014, \h8015, \h8016, \h8017, \h801E, \hA123, \hB20A, \hC1FF, \hD011, \hD105,
      \hF007, \hF00A, \hF015, \hF018, \hF01E, \hF029, \hF033, \hF055, \hF065,
      \h00EE,      \* a return without a call
      \h2206 }     \* a subroutine that calls itself

InstructionGame(v0, v1, word) ==
    GameData(<< \h6000 + v0,    \* 200: V0 = v0
                \h6100 + v1,    \* 202: V1 = v1
                \hD011,         \* 204: draw the top row of the glyph of 0 at (V0, V1)
                word,           \* 206: the instruction
                \h1208,         \* 208: jump to 208
                \h120A,         \* 20A: jump to 20A
                \h00EE >>)      \* 20C: return

InstructionGames ==
    { InstructionGame(v0, v1, word) :
          v0 \in KeyValues, v1 \in KeyValues, word \in SkipWords \cup OtherWords }

InstructionSessions ==
    { Session("Paused", QuirkConfig_new, TRUE),
      Session("Paused", [QuirkConfig_new EXCEPT !.display_wait = "NoWait"], FALSE) }

InitInstructions ==
    /\ \E session \in InstructionSessions, game_data \in InstructionGames :
          \E created \in { new_with_sdl(session.audio_device, session.quirk_config) } :
              \E loaded \in { load_game(created, game_data) } :
                  /\ Holds(loaded)
                  /\ prev = created
                  /\ overflow_checks = session.overflow_checks
    /\ last_op = Op("load_game", "", NoOpcode)
    /\ key_latched = {}

NextInstructions ==
    \/ HandleKeyPress
    \/ HandleKeyRelease
    \/ HandleCycle
    \/ HandleFrame

InstructionSpec == InitInstructions /\ [][NextInstructions]_vars

(***************************************************************************)
(* Properties.  Each is stated over a state and the history variables:     *)
(* last_op is the call that produced the state and prev the interpreter    *)
(* before that call.                                                       *)
(***************************************************************************)
Max(v, w) == IF v >= w THEN v ELSE w

Suspended(s) == s.should_wait_for_key \/ s.should_wait_for_display_refresh

\* the key a keycode maps to is the one value k
MapsTo(keycode, k) == get_key_mapping(keycode) = {k}

\* The pixels a draw of height n from registers (x, y) toggles in state s, stated
\* from the sprite's bits: row r, column c of the sprite is bit 7 - c of ram[I + r]
\* and lands on (Vx mod 64 + c, Vy mod 32 + r), dropped or wrapped at the edges.
SpritePixels(s, x, y, n) ==
    LET base_x == s.registers[x] % SCREEN_WIDTH
        base_y == s.registers[y] % SCREEN_HEIGHT
        lit == { rc \in (0 .. n - 1) \X (0 .. 7) :
                   /\ Bit(ram_get(s.ram, s.register_i + rc[1]), 7 - rc[2]) = 1
                   /\ s.quirk_config.clipping = "Clip" =>
                          /\ base_x + rc[2] < SCREEN_WIDTH
                          /\ base_y + rc[1] < SCREEN_HEIGHT }
    IN { ((base_y + rc[1]) % SCREEN_HEIGHT) * SCREEN_WIDTH
             + ((base_x + rc[2]) % SCREEN_WIDTH) : rc \in lit }

\* the drawing buffer after those pixels are XORed onto buffer
Toggled(buffer, pixels) == (buffer \ pixels) \cup (pixels \ buffer)

\* C1: while either suspension flag is set, handle_cycle is a complete no-op: no
\* instruction is fetched and nothing of the interpreter changes (program counter,
\* registers, memory, stack, timers, pixels, flags), however many cycles run.
C1_SuspendedCycleIsNoOp ==
    (last_op.name = "handle_cycle" /\ Suspended(prev)) =>
        /\ last_op.opcode = NoOpcode
        /\ self = prev

C1_Witness ==
    /\ last_op.name = "handle_cycle"
    /\ prev.should_wait_for_key
    /\ prev.delay_timer > 0
    /\ prev.keyboard # {}
    /\ fetch_opcode(prev).name = "AddValue"

C3_WaitLiftedOnlyByLatchedKey ==
    (last_op.name = "handle_key_release" /\ prev.should_wait_for_key
         /\ ~should_wait_for_key) =>
        /\ key_latched # {}
        /\ key_latched = get_key_mapping(last_op.keycode)

\* C4: while the machine waits for a key, a press of a mapped key writes the key's
\* value (0..15) to the destination register that LoadKeyPress recorded, so the
\* register holds the key most recently pressed during the wait; the press does not
\* lift the wait.
C4_PressLatchesKey ==
    /\ (last_op.name = "handle_key_press" /\ prev.should_wait_for_key) =>
           /\ should_wait_for_key
           /\ wait_for_key_register = prev.wait_for_key_register
           /\ \A k \in get_key_mapping(last_op.keycode) :
                  /\ k \in 0 .. 15
                  /\ registers[prev.wait_for_key_register] = k
    /\ (should_wait_for_key /\ key_latched # {}) =>
           registers[wait_for_key_register] \in key_latched

C4_Witness ==
    /\ last_op.name = "handle_key_press"
    /\ prev.should_wait_for_key
    /\ registers[wait_for_key_register] # prev.registers[wait_for_key_register]
    /\ MapsTo(last_op.keycode, registers[wait_for_key_register])

\* C5: a Draw under the Wait quirk only sets the display-refresh flag and stashes
\* (x register, y register, height): the drawing buffer and VF (and everything but
\* the program counter) are as before; under NoWait the draw is applied at once and
\* the flag and the stashed triple are untouched.
C5_DrawDefersOrPaints ==
    (last_op.name = "handle_cycle" /\ last_op.opcode.name = "Draw" /\ ~panicked) =>
        LET x == last_op.opcode.args[1]
            y == last_op.opcode.args[2]
            n == last_op.opcode.args[3]
        IN IF quirk_config.display_wait = "Wait"
               THEN self = [prev EXCEPT
                               !.program_counter = @ + PROGRAM_COUNTER_INCREMENT,
                               !.should_wait_for_display_refresh = TRUE,
                               !.wait_for_display_refresh_data = <<x, y, n>>]
               ELSE /\ should_wait_for_display_refresh
                           = prev.should_wait_for_display_refresh
                    /\ wait_for_display_refresh_data = prev.wait_for_display_refresh_data
                    /\ drawing_buffer
                           = Toggled(prev.drawing_buffer, SpritePixels(prev, x, y, n))

C5_Witness ==
    /\ last_op.name = "handle_cycle"
    /\ last_op.opcode.name = "Draw"
    /\ quirk_config.display_wait = "Wait"
    /\ should_wait_for_display_refresh
    /\ wait_for_display_refresh_data = last_op.opcode.args
    /\ SpritePixels(prev, last_op.opcode.args[1], last_op.opcode.args[2],
                    last_op.opcode.args[3]) # {}

\* C6: the frame tick of a running machine resolves a pending display-refresh wait:
\* it applies the stashed draw to the drawing buffer and clears the flag, so no state
\* after a frame tick is waiting for a refresh, and the machine is then ready to run
\* at the instruction after the Draw.
C6_FrameResolvesPendingDraw ==
    (last_op.name = "handle_frame" /\ ~panicked) =>
        /\ ~should_wait_for_display_refresh
        /\ prev.should_wait_for_display_refresh =>
               LET data == prev.wait_for_display_refresh_data
                   pixels == SpritePixels(prev, data[1], data[2], data[3])
               IN /\ drawing_buffer = Toggled(prev.drawing_buffer, pixels)
                  /\ registers[REGISTER_F]
                         = (IF pixels \cap prev.drawing_buffer # {} THEN 1 ELSE 0)
                  /\ is_running /\ ~should_wait_for_key
                  /\ program_counter = prev.program_counter
                  /\ get_opcode(ram_get(ram, program_counter - 2),
                                ram_get(ram, program_counter - 1))
                         = Opcode("Draw", data)

C6_Witness ==
    /\ last_op.name = "handle_frame"
    /\ prev.should_wait_for_display_refresh
    /\ ~should_wait_for_display_refresh
    /\ drawing_buffer # prev.drawing_buffer

\* C7: a frame tick takes each timer t, independently of the other, to
\* max(t - 1, 0): down by exactly 1 when nonzero, and 0 stays 0.
C7_TimersSaturateAtZero ==
    last_op.name = "handle_frame" =>
        /\ delay_timer = Max(prev.delay_timer - 1, 0)
        /\ sound_timer = Max(prev.sound_timer - 1, 0)

C7_Witness ==
    /\ last_op.name = "handle_frame"
    /\ prev.delay_timer = 2
    /\ delay_timer = 1
    /\ prev.sound_timer = 0
    /\ sound_timer = 0

C9_ToneFollowsSoundTimer ==
    audio_device # "None" => (audio_device = "Playing" <=> sound_timer > 0)

C9_Witness ==
    /\ last_op.name = "handle_frame"
    /\ prev.audio_device = "Playing"
    /\ audio_device = "Paused"
    /\ prev.sound_timer = 1

\* C10: at most one suspension is active: the two flags are never both set, and a
\* Draw is never stashed (nor the stashed triple changed) while a draw is pending.
C10_AtMostOneSuspension ==
    /\ ~(should_wait_for_key /\ should_wait_for_display_refresh)
    /\ (last_op.name = "handle_cycle" /\ prev.should_wait_for_display_refresh) =>
           /\ last_op.opcode.name # "Draw"
           /\ wait_for_display_refresh_data = prev.wait_for_display_refresh_data

C10_Witness ==
    /\ last_op.name = "handle_cycle"
    /\ prev.should_wait_for_display_refresh
    /\ should_wait_for_display_refresh
    /\ fetch_opcode(self).name = "Draw"
    /\ fetch_opcode(self).args # wait_for_display_refresh_data


(***************************************************************************)
(* Properties of single instructions.  Executed(name) says the state was   *)
(* produced by a cycle that fetched and ran the instruction `name`; Vx, Vy  *)
(* are the instruction's register operands and a, b their values before it. *)
(***************************************************************************)
Executed(name) ==
    /\ last_op.name = "handle_cycle"
    /\ last_op.opcode.name = name
    /\ ~panicked

OperandX == last_op.opcode.args[1]

OperandY == last_op.opcode.args[2]

\* every register but those in `changed` is as before the instruction
RegistersKeptExcept(changed) ==
    \A r \in 0 .. REGISTERS_SIZE - 1 : r \notin changed => registers[r] = prev.registers[r]

\* C11: AddRegisters(x, y) with a = Vx and b = Vy leaves Vx = (a + b) mod 256 when x
\* is not VF, VF = 1 if a + b > 255 and 0 otherwise, and Vy (like every other
\* register) unchanged when y is neither x nor VF.
C11_AddRegistersSumAndCarry ==
    Executed("AddRegisters") =>
        LET a == prev.registers[OperandX]
            b == prev.registers[OperandY]
        IN /\ OperandX # REGISTER_F => registers[OperandX] = (a + b) % 256
           /\ registers[REGISTER_F] = (IF a + b > 255 THEN 1 ELSE 0)
           /\ OperandY \notin {OperandX, REGISTER_F} =>
                  registers[OperandY] = prev.registers[OperandY]
           /\ RegistersKeptExcept({OperandX, REGISTER_F})

C11_Witness ==
    /\ Executed("AddRegisters")
    /\ OperandX = 0 /\ OperandY = 1
    /\ prev.registers[0] = 255 /\ prev.registers[1] = 128
    /\ registers[0] = 127 /\ registers[1] = 128 /\ registers[REGISTER_F] = 1

ArithmeticResult(name, a, b) ==
    LET source == IF quirk_config.shifting = "Vy" THEN b ELSE a
    IN CASE name = "AddRegisters" -> (a + b) % 256
         [] name = "SubtractFromFirstRegister" -> (a - b) % 256
         [] name = "SubtractFromSecondRegister" -> (b - a) % 256
         [] name = "BitShiftRight" -> source \div 2
         [] name = "BitShiftLeft" -> (source * 2) % 256

ArithmeticFlag(name, a, b) ==
    LET source == IF quirk_config.shifting = "Vy" THEN b ELSE a
    IN CASE name = "AddRegisters" -> IF a + b > 255 THEN 1 ELSE 0
         [] name = "SubtractFromFirstRegister" -> IF a >= b THEN 1 ELSE 0
         [] name = "SubtractFromSecondRegister" -> IF b >= a THEN 1 ELSE 0
         [] name = "BitShiftRight" -> source % 2
         [] name = "BitShiftLeft" -> source \div 128

FlagArithmetic ==
    { "AddRegisters", "SubtractFromFirstRegister", "SubtractFromSecondRegister",
      "BitShiftRight", "BitShiftLeft" }

\* C13: the flag-setting instructions (AddRegisters, the subtractions, the shifts,
\* Draw) read their operands before they write VF and write the flag last: with VF
\* as the destination the final VF is the flag (0 or 1), not the arithmetic result,
\* and with VF as a source the value VF had before the instruction is the operand.
C13_FlagWrittenLastOperandsReadFirst ==
    /\ \A name \in FlagArithmetic :
           Executed(name) =>
               LET a == prev.registers[OperandX]
                   b == prev.registers[OperandY]
               IN /\ registers[REGISTER_F] = ArithmeticFlag(name, a, b)
                  /\ registers[REGISTER_F] \in {0, 1}
                  /\ OperandX # REGISTER_F =>
                         registers[OperandX] = ArithmeticResult(name, a, b)
    /\ (Executed("Draw") /\ quirk_config.display_wait = "NoWait") =>
           LET pixels == SpritePixels(prev, OperandX, OperandY, last_op.opcode.args[3])
           IN /\ drawing_buffer = Toggled(prev.drawing_buffer, pixels)
              /\ registers[REGISTER_F]
                     = (IF pixels \cap prev.drawing_buffer # {} THEN 1 ELSE 0)
    /\ (last_op.name = "handle_frame" /\ prev.should_wait_for_display_refresh
            /\ ~panicked) =>
           LET data == prev.wait_for_display_refresh_data
               pixels == SpritePixels(prev, data[1], data[2], data[3])
           IN /\ drawing_buffer = Toggled(prev.drawing_buffer, pixels)
              /\ registers[REGISTER_F]
                     = (IF pixels \cap prev.drawing_buffer # {} THEN 1 ELSE 0)

\* VF is both the destination and the second operand of an addition that carries
C13_Witness ==
    /\ Executed("AddRegisters")
    /\ OperandX = REGISTER_F /\ OperandY = REGISTER_F
    /\ prev.registers[REGISTER_F] = 218
    /\ registers[REGISTER_F] = 1


\* C14: BitShiftRight(x, y) and BitShiftLeft(x, y) shift the value of Vy under the
\* Vy shifting quirk and of Vx under the Vx quirk, write source >> 1 (right) or
\* (source << 1) mod 256 (left) to Vx, set VF to the bit shifted off (bit 0 for
\* right, bit 7 for left) and leave Vy unchanged when y is neither x nor VF.
C14_ShiftSourceResultAndFlag ==
    \A name \in {"BitShiftRight", "BitShiftLeft"} :
        Executed(name) =>
            LET source == IF quirk_config.shifting = "Vy" THEN prev.registers[OperandY]
                          ELSE prev.registers[OperandX]
            IN /\ OperandX # REGISTER_F =>
                      registers[OperandX] = (IF name = "BitShiftRight" THEN source \div 2
                                             ELSE (source * 2) % 256)
               /\ registers[REGISTER_F] = (IF name = "BitShiftRight" THEN Bit(source, 0)
                                           ELSE Bit(source, 7))
               /\ OperandY \notin {OperandX, REGISTER_F} =>
                      registers[OperandY] = prev.registers[OperandY]
               /\ RegistersKeptExcept({OperandX, REGISTER_F})

\* a right shift of Vy = 255 into Vx = 0 under the Vy quirk
C14_Witness ==
    /\ Executed("BitShiftRight")
    /\ quirk_config.shifting = "Vy"
    /\ OperandX = 0 /\ OperandY = 1
    /\ prev.registers[0] = 0 /\ prev.registers[1] = 255
    /\ registers[0] = 127 /\ registers[1] = 255 /\ registers[REGISTER_F] = 1

\* the bitwise combination of bytes a and b: bit k of the result from bits k
Bitwise(name, a, b) ==
    CHOOSE r \in 0 .. 255 :
        \A k \in 0 .. 7 :
            Bit(r, k) = 1 <=>
                CASE name = "Or" -> Bit(a, k) = 1 \/ Bit(b, k) = 1
                  [] name = "And" -> Bit(a, k) = 1 /\ Bit(b, k) = 1
                  [] name = "Xor" -> Bit(a, k) # Bit(b, k)

\* C15: Or, And and Xor (x, y) store Vx op Vy in Vx and leave Vy as it is; after
\* that VF is forced to 0 under the Reset quirk (also when VF was the destination)
\* and is what the logical operation left under NoReset.
C15_LogicInPlaceThenReset ==
    \A name \in {"Or", "And", "Xor"} :
        Executed(name) =>
            LET result == Bitwise(name, prev.registers[OperandX], prev.registers[OperandY])
                operated == [prev.registers EXCEPT ![OperandX] = result]
            IN registers = (IF quirk_config.reset_vf = "Reset"
                                THEN [operated EXCEPT ![REGISTER_F] = 0]
                            ELSE operated)

\* under Reset, an Or into VF of two values that are not 0 leaves VF = 0
C15_Witness ==
    /\ Executed("Or")
    /\ quirk_config.reset_vf = "Reset"
    /\ OperandX = REGISTER_F /\ OperandY = 1
    /\ prev.registers[REGISTER_F] = 218 /\ prev.registers[1] = 1
    /\ registers[REGISTER_F] = 0 /\ registers[1] = 1


\* the interpreter s under the other memory policy
OtherMemoryPolicy(s) ==
    [s EXCEPT !.quirk_config.memory = IF @ = "Increment" THEN "NoIncrement" ELSE "Increment"]

\* the last cycle fetched the block transfer `name` with I + N inside memory
Transferred(name) ==
    /\ last_op.name = "handle_cycle"
    /\ last_op.opcode.name = name
    /\ prev.register_i + OperandX < RAM_SIZE

\* C16: for N in 0..15 and I + N inside memory, StoreRegisters(N) leaves the same
\* memory under Increment and NoIncrement (memory[I0 + k] = Vk for k = 0..N, every
\* other byte and every register unchanged), and LoadRegisters(N) the same registers
\* under both (Vk = memory[I0 + k] for k = 0..N, those above N and memory unchanged).
C16_TransfersAgreeUnderBothPolicies ==
    /\ Transferred("StoreRegisters") =>
           /\ ~panicked
           /\ \A address \in 0 .. RAM_SIZE - 1 :
                  ram_get(ram, address) =
                      (IF address - prev.register_i \in 0 .. OperandX
                           THEN prev.registers[address - prev.register_i]
                       ELSE ram_get(prev.ram, address))
           /\ registers = prev.registers
           /\ ram = store_registers(OtherMemoryPolicy(prev), OperandX).ram
    /\ Transferred("LoadRegisters") =>
           /\ ~panicked
           /\ \A r \in 0 .. REGISTERS_SIZE - 1 :
                  registers[r] = (IF r <= OperandX THEN ram_get(prev.ram, prev.register_i + r)
                                  ELSE prev.registers[r])
           /\ ram = prev.ram
           /\ registers = load_registers(OtherMemoryPolicy(prev), OperandX).registers

\* all sixteen registers stored from I = 300 under NoIncrement
C16_Witness ==
    /\ Transferred("StoreRegisters")
    /\ quirk_config.memory = "NoIncrement"
    /\ OperandX = 15
    /\ prev.register_i = 768
    /\ prev.registers[0] = 255 /\ prev.registers[REGISTER_F] = 218
    /\ ram_get(prev.ram, 768) = 0 /\ ram_get(prev.ram, 783) = 0
    /\ ram_get(ram, 768) = 255 /\ ram_get(ram, 770) = 42 /\ ram_get(ram, 783) = 218

\* C17: after StoreRegisters(N) or LoadRegisters(N) from I = I0 the index register is
\* I0 + N + 1 under the Increment memory quirk and I0 under NoIncrement.
C17_IndexAfterTransfer ==
    \A name \in {"StoreRegisters", "LoadRegisters"} :
        Executed(name) =>
            register_i = (IF quirk_config.memory = "Increment"
                              THEN prev.register_i + OperandX + 1
                          ELSE prev.register_i)

\* V0, V1 loaded from the glyph at I = 5 under Increment
C17_Witness ==
    /\ Executed("LoadRegisters")
    /\ quirk_config.memory = "Increment"
    /\ OperandX = 1
    /\ prev.register_i = 5
    /\ register_i = 7
    /\ registers[0] = 32 /\ registers[1] = 96


\* C18: BinaryCodedDecimal(x) with v = Vx leaves memory[I] = v div 100,
\* memory[I + 1] = (v div 10) mod 10 and memory[I + 2] = v mod 10, and changes
\* neither a register, nor I, nor any other memory cell.
C18_BinaryCodedDecimalDigits ==
    Executed("BinaryCodedDecimal") =>
        LET v == prev.registers[OperandX]
            digits == << v \div 100, (v \div 10) % 10, v % 10 >>
        IN /\ \A address \in 0 .. RAM_SIZE - 1 :
                  ram_get(ram, address) =
                      (IF address - prev.register_i \in 0 .. 2
                           THEN digits[address - prev.register_i + 1]
                       ELSE ram_get(prev.ram, address))
           /\ registers = prev.registers
           /\ register_i = prev.register_i

\* 218 written as 2, 1, 8 over the glyph at I = 5
C18_Witness ==
    /\ Executed("BinaryCodedDecimal")
    /\ prev.registers[OperandX] = 218
    /\ prev.register_i = 5
    /\ ram_get(prev.ram, 5) = 32 /\ ram_get(prev.ram, 8) = 32
    /\ ram_get(ram, 5) = 2 /\ ram_get(ram, 6) = 1 /\ ram_get(ram, 7) = 8
    /\ ram_get(ram, 8) = 32

\* C19: JumpAddrV0(nnn) sets the program counter to nnn + V0 under the V0 jumping
\* quirk and to nnn + V[(nnn >> 8) & 0xF] under the Vx quirk, and changes no register.
C19_JumpWithOffsetTarget ==
    Executed("JumpAddrV0") =>
        LET nnn == last_op.opcode.args[1]
            offset_register == IF quirk_config.jumping = "V0" THEN 0
                               ELSE (nnn \div 256) % 16
        IN /\ program_counter = nnn + prev.registers[offset_register]
           /\ registers = prev.registers
           /\ register_i = prev.register_i

\* BF45 under the Vx quirk jumps to F45 + VF, not to F45 + V0
C19_Witness ==
    /\ Executed("JumpAddrV0")
    /\ quirk_config.jumping = "Vx"
    /\ last_op.opcode.args[1] = 3909
    /\ prev.registers[REGISTER_F] = 218 /\ prev.registers[0] = 1
    /\ program_counter = 4127


\* the instructions that read or write memory through the index register
IndexAccessing == { "StoreRegisters", "LoadRegisters", "BinaryCodedDecimal", "Draw" }

\* C20: memory addresses are taken modulo the 4096-byte memory: whatever the
\* instructions before did to the program counter and to I, every fetch reads the
\* two cells at the program counter inside memory and every access through I lands
\* inside memory, so neither a fetch nor such an access fails.
C20_AddressesInsideMemory ==
    /\ (last_op.name = "handle_cycle" /\ last_op.opcode # NoOpcode) =>
           /\ last_op.opcode =
                  get_opcode(ram_get(prev.ram, prev.program_counter % RAM_SIZE),
                             ram_get(prev.ram, (prev.program_counter + 1) % RAM_SIZE))
           /\ last_op.opcode.name \in IndexAccessing => ~panicked
    /\ last_op.name = "handle_frame" => ~panicked


(***************************************************************************)
(* Properties of drawing.  A draw is completed by the cycle that executes   *)
(* it under NoWait and by the frame tick that follows it under Wait.        *)
(***************************************************************************)
DrawCompleted ==
    /\ ~panicked
    /\ \/ last_op.name = "handle_cycle" /\ last_op.opcode.name = "Draw"
              /\ quirk_config.display_wait = "NoWait"
       \/ last_op.name = "handle_frame" /\ prev.should_wait_for_display_refresh

\* (x register, y register, height) of the draw completed
DrawnOperands ==
    IF last_op.name = "handle_frame" THEN prev.wait_for_display_refresh_data
    ELSE last_op.opcode.args

BaseX == prev.registers[DrawnOperands[1]] % 64

BaseY == prev.registers[DrawnOperands[2]] % 32

\* rows and columns of the sprite, those that fall inside the screen from the base,
\* and those that run past an edge
SpriteCells == (0 .. DrawnOperands[3] - 1) \X (0 .. 7)

CellsOnScreen == { rc \in SpriteCells : BaseX + rc[2] < 64 /\ BaseY + rc[1] < 32 }

CellsPastEdge == SpriteCells \ CellsOnScreen

\* bit (7 - c) of memory[I + r]
SpriteBit(rc) == Bit(ram_get(prev.ram, prev.register_i + rc[1]), 7 - rc[2])

\* the pixel (index into the drawing buffer) a cell lands on, coordinates modulo the screen
PixelOf(rc) == ((BaseY + rc[1]) % 32) * 64 + ((BaseX + rc[2]) % 64)

\* the cells the draw applies: all under Wrap, those on screen under Clip
CellsDrawn == IF quirk_config.clipping = "Wrap" THEN SpriteCells ELSE CellsOnScreen

\* C21: a completed draw of height n from (x, y) has base (Vx mod 64, Vy mod 32)
\* under either clipping quirk; the pixel at (base_x + c, base_y + r) becomes its old
\* value XOR bit (7 - c) of memory[I + r] for r < n, c < 8; every pixel not targeted
\* is unchanged; VF ends 1 exactly when a targeted pixel went from on to off, else 0.
C21_DrawXorsSpriteOntoScreen ==
    DrawCompleted =>
        /\ \A rc \in CellsOnScreen :
               pixel_get(drawing_buffer, (BaseY + rc[1]) * 64 + BaseX + rc[2])
                   = (pixel_get(prev.drawing_buffer, (BaseY + rc[1]) * 64 + BaseX + rc[2])
                          # (SpriteBit(rc) = 1))
        /\ \A pixel \in (0 .. DRAWING_BUFFER_SIZE - 1) \ { PixelOf(rc) : rc \in CellsDrawn } :
               pixel_get(drawing_buffer, pixel) = pixel_get(prev.drawing_buffer, pixel)
        /\ registers[REGISTER_F] \in {0, 1}
        /\ registers[REGISTER_F] = 1 <=>
               \E rc \in CellsDrawn : /\ pixel_get(prev.drawing_buffer, PixelOf(rc))
                                      /\ ~pixel_get(drawing_buffer, PixelOf(rc))
        /\ RegistersKeptExcept({REGISTER_F})

\* a sprite drawn one column to the right of itself, from registers beyond the screen
\* size: some pixels go off, some come on, some stay
C21_Witness ==
    /\ DrawCompleted
    /\ prev.registers[DrawnOperands[1]] = 70 /\ prev.registers[DrawnOperands[2]] = 33
    /\ BaseX = 6 /\ BaseY = 1
    /\ registers[REGISTER_F] = 1
    /\ \E rc \in CellsOnScreen : pixel_get(prev.drawing_buffer, PixelOf(rc))
                                     /\ ~pixel_get(drawing_buffer, PixelOf(rc))
    /\ \E rc \in CellsOnScreen : ~pixel_get(prev.drawing_buffer, PixelOf(rc))
                                     /\ pixel_get(drawing_buffer, PixelOf(rc))
    /\ drawing_buffer \cap prev.drawing_buffer # {}

\* C22: a sprite drawn on the cleared screen gives VF = 0, and the same draw again
\* (coordinate registers not VF; sprite memory and I unchanged) turns every pixel off
\* with VF = 1 when the sprite has a set bit on screen; in general the second of two
\* identical draws restores the drawing buffer the first one found.
C22_SecondIdenticalDrawRestores ==
    (DrawCompleted /\ DrawnOperands[1] # REGISTER_F /\ DrawnOperands[2] # REGISTER_F) =>
        LET again == complete_draw(self, DrawnOperands[1], DrawnOperands[2], DrawnOperands[3])
        IN /\ again.drawing_buffer = prev.drawing_buffer
           /\ prev.drawing_buffer = {} =>
                  /\ registers[REGISTER_F] = 0
                  /\ drawing_buffer # {} => again.registers[REGISTER_F] = 1

\* the program's second identical draw has run: the screen is clear again, VF = 1
C22_Witness ==
    /\ DrawCompleted
    /\ prev.drawing_buffer # {}
    /\ drawing_buffer = {}
    /\ registers[REGISTER_F] = 1
    /\ prev.registers[REGISTER_F] = 0
    /\ \A rc \in CellsDrawn : SpriteBit(rc) = 1 <=> PixelOf(rc) \in prev.drawing_buffer

\* C23: where the sprite's columns or rows run past the screen edge, Wrap draws them
\* at the coordinates modulo 64 and 32 (x = 63 + c lands on x = c - 1) and Clip drops
\* them: the pixels they would land on are unmodified and add nothing to VF.
C23_EdgeCellsWrapOrClip ==
    DrawCompleted =>
        IF quirk_config.clipping = "Wrap"
            THEN \A rc \in CellsPastEdge :
                     pixel_get(drawing_buffer, PixelOf(rc))
                         = (pixel_get(prev.drawing_buffer, PixelOf(rc)) # (SpriteBit(rc) = 1))
        ELSE /\ \A rc \in CellsPastEdge :
                    pixel_get(drawing_buffer, PixelOf(rc))
                        = pixel_get(prev.drawing_buffer, PixelOf(rc))
             /\ registers[REGISTER_F] = 1 <=>
                    \E rc \in CellsOnScreen :
                        SpriteBit(rc) = 1 /\ pixel_get(prev.drawing_buffer, PixelOf(rc))

\* under Clip a sprite at x = 63 whose dropped columns would land on lit pixels:
\* those pixels stay lit and VF = 0
C23_Witness ==
    /\ DrawCompleted
    /\ quirk_config.clipping = "Clip"
    /\ BaseX = 63
    /\ \E rc \in CellsPastEdge :
           /\ SpriteBit(rc) = 1
           /\ pixel_get(prev.drawing_buffer, PixelOf(rc))
           /\ pixel_get(drawing_buffer, PixelOf(rc))
    /\ registers[REGISTER_F] = 0

\* C24: ClearScreen turns all 2048 pixels off and changes nothing else: registers
\* (VF included), timers, memory, stack and the suspension flags are as before.
C24_ClearScreenOnlyClearsPixels ==
    Executed("ClearScreen") =>
        /\ \A pixel \in 0 .. DRAWING_BUFFER_SIZE - 1 : ~pixel_get(drawing_buffer, pixel)
        /\ self = [prev EXCEPT !.drawing_buffer = {},
                               !.program_counter = @ + PROGRAM_COUNTER_INCREMENT]

C24_Witness ==
    /\ Executed("ClearScreen")
    /\ prev.drawing_buffer # {}
    /\ drawing_buffer = {}
    /\ registers[REGISTER_F] = 1


(***************************************************************************)
(* Subroutines and the order of a cycle.                                    *)
(***************************************************************************)
\* the word the last cycle fetched, read from the memory the cycle found
FetchedFirstByte == ram_get(prev.ram, prev.program_counter)

FetchedSecondByte == ram_get(prev.ram, prev.program_counter + 1)

\* the last call was a cycle that was not suspended and fetched a word
Fetched ==
    /\ last_op.name = "handle_cycle"
    /\ ~cycle_is_skipped(prev)
    /\ prev.program_counter + 1 < RAM_SIZE

\* the loaded game is a chain of nested subroutines
NestedCalls == ram_get(ram, PROGRAM_START_ADDRESS) = \h22

\* the address following the call that enters the subroutine at nesting level `level`
SavedProgramCounter(level) == SubroutineAddress(level - 1) + PROGRAM_COUNTER_INCREMENT

\* C25: a call writes the program counter of the moment (the address after the
\* call) into stack[sp], then increments sp and jumps to its target; a return
\* jumps to stack[sp - 1] and decrements sp, leaving every stack slot as it was;
\* in a chain of nested subroutines of depth at most 16 the slots below sp hold the
\* saved program counters of the calls still open, each return resumes at the one
\* saved last, and sp is back at 0 when the chain has unwound
C25_CallsAndReturnsAreLastInFirstOut ==
    /\ Executed("CallAddr") =>
          /\ stack = [prev.stack EXCEPT
                         ![prev.stack_pointer] = prev.program_counter + PROGRAM_COUNTER_INCREMENT]
          /\ stack_pointer = prev.stack_pointer + 1
          /\ program_counter = last_op.opcode.args[1]
    /\ Executed("Return") =>
          /\ program_counter = prev.stack[prev.stack_pointer - 1]
          /\ stack_pointer = prev.stack_pointer - 1
          /\ stack = prev.stack
    /\ (NestedCalls /\ ~panicked) =>
          /\ \A level \in 1 .. stack_pointer : stack[level - 1] = SavedProgramCounter(level)
          /\ Executed("Return") => program_counter = SavedProgramCounter(prev.stack_pointer)
          /\ Executed("JumpAddr") => stack_pointer = 0

\* sixteen nested calls have returned one after another to the first caller
C25_Witness ==
    /\ NestedCalls
    /\ Executed("Return")
    /\ prev.stack_pointer = 1
    /\ stack_pointer = 0
    /\ stack[STACK_SIZE - 1] = SavedProgramCounter(STACK_SIZE)
    /\ program_counter = PROGRAM_START_ADDRESS + PROGRAM_COUNTER_INCREMENT

\* the instructions that choose the next program counter themselves
ControlFlow ==
    { "Return", "JumpAddr", "SystemAddr", "CallAddr", "JumpAddrV0",
      "SkipRegisterEqualsValue", "SkipRegisterNotEqualsValue", "SkipRegistersEqual",
      "SkipRegistersNotEqual", "SkipKeyPressed", "SkipKeyNotPressed" }

\* C26: a cycle that is not suspended decodes the two bytes at the program
\* counter, advances the program counter by 2 and only then dispatches: an
\* instruction that is not control flow leaves the program counter at the old one
\* plus 2, a jump leaves it exactly at its target, and a call saves the old
\* program counter plus 2 as the return address
C26_AdvanceThenDispatch ==
    (Fetched /\ ~panicked) =>
        /\ last_op.opcode = get_opcode(FetchedFirstByte, FetchedSecondByte)
        /\ last_op.opcode.name \notin ControlFlow =>
              program_counter = prev.program_counter + PROGRAM_COUNTER_INCREMENT
        /\ last_op.opcode.name = "JumpAddr" => program_counter = last_op.opcode.args[1]
        /\ last_op.opcode.name = "CallAddr" =>
              /\ stack[prev.stack_pointer] = prev.program_counter + PROGRAM_COUNTER_INCREMENT
              /\ program_counter = last_op.opcode.args[1]

\* a nested call has saved the address of the instruction after it
C26_Witness ==
    /\ Fetched
    /\ Executed("CallAddr")
    /\ prev.stack_pointer > 0
    /\ stack[prev.stack_pointer] = prev.program_counter + PROGRAM_COUNTER_INCREMENT
    /\ program_counter # prev.program_counter + PROGRAM_COUNTER_INCREMENT


(***************************************************************************)
(* The decoder.  The table below is the instruction set as the             *)
(* specification lists it, in terms of the digits of the word.              *)
(***************************************************************************)
FetchedWord == FetchedFirstByte * 256 + FetchedSecondByte

WordFamily(word) == word \div 4096

WordX(word) == (word \div 256) % 16

WordY(word) == (word \div 16) % 16

WordHeight(word) == word % 16

WordImmediate(word) == word % 256

WordAddress(word) == word % 4096

\* families whose operand is a 12-bit address
AddressVariants ==
    (0 :> "SystemAddr") @@ (1 :> "JumpAddr") @@ (2 :> "CallAddr") @@
    (10 :> "LoadRegisterI") @@ (11 :> "JumpAddrV0")

\* families whose operands are register x and an immediate byte
ImmediateVariants ==
    (3 :> "SkipRegisterEqualsValue") @@ (4 :> "SkipRegisterNotEqualsValue") @@
    (6 :> "LoadValue") @@ (7 :> "AddValue") @@ (12 :> "Random")

\* families 5, 8 and 9: registers x and y, selected by the last digit
RegisterPairVariants ==
    (5 :> (0 :> "SkipRegistersEqual")) @@
    (8 :> ((0 :> "LoadRegisterValue") @@ (1 :> "Or") @@ (2 :> "And") @@ (3 :> "Xor") @@
           (4 :> "AddRegisters") @@ (5 :> "SubtractFromFirstRegister") @@
           (6 :> "BitShiftRight") @@ (7 :> "SubtractFromSecondRegister") @@
           (14 :> "BitShiftLeft"))) @@
    (9 :> (0 :> "SkipRegistersNotEqual"))

\* families E and F: register x, selected by the whole second byte
RegisterVariants ==
    (14 :> ((158 :> "SkipKeyPressed") @@ (161 :> "SkipKeyNotPressed"))) @@
    (15 :> ((7 :> "LoadDelayTimer") @@ (10 :> "LoadKeyPress") @@ (21 :> "SetDelayTimer") @@
            (24 :> "SetSoundTimer") @@ (30 :> "AddRegisterI") @@
            (41 :> "SetIHexSpriteLocation") @@ (51 :> "BinaryCodedDecimal") @@
            (85 :> "StoreRegisters") @@ (101 :> "LoadRegisters")))

Recognized(word) ==
    \/ word \in { 224, 238 }
    \/ WordFamily(word) \in DOMAIN AddressVariants \cup DOMAIN ImmediateVariants \cup { 13 }
    \/ /\ WordFamily(word) \in DOMAIN RegisterPairVariants
       /\ WordHeight(word) \in DOMAIN RegisterPairVariants[WordFamily(word)]
    \/ /\ WordFamily(word) \in DOMAIN RegisterVariants
       /\ WordImmediate(word) \in DOMAIN RegisterVariants[WordFamily(word)]

\* the instruction a recognized word stands for
Instruction(word) ==
    LET family == WordFamily(word)
    IN IF word = 224 THEN Opcode("ClearScreen", <<>>)
       ELSE IF word = 238 THEN Opcode("Return", <<>>)
       ELSE IF family \in DOMAIN AddressVariants
           THEN Opcode(AddressVariants[family], <<WordAddress(word)>>)
       ELSE IF family \in DOMAIN ImmediateVariants
           THEN Opcode(ImmediateVariants[family], <<WordX(word), WordImmediate(word)>>)
       ELSE IF family \in DOMAIN RegisterPairVariants
           THEN Opcode(RegisterPairVariants[family][WordHeight(word)],
                       <<WordX(word), WordY(word)>>)
       ELSE IF family = 13
           THEN Opcode("Draw", <<WordX(word), WordY(word), WordHeight(word)>>)
       ELSE Opcode(RegisterVariants[family][WordImmediate(word)], <<WordX(word)>>)

\* the words the specification names as unmapped
NamedUnmapped(word) ==
    \/ WordFamily(word) \in { 5, 9 } /\ WordHeight(word) \in 1 .. 15
    \/ WordFamily(word) = 8 /\ WordHeight(word) = 15
    \/ WordFamily(word) = 14 /\ WordImmediate(word) \notin { 158, 161 }
    \/ WordFamily(word) = 15 /\ WordImmediate(word) \notin { 7, 10, 21, 24, 30, 41, 51, 85, 101 }

\* C27: for every recognized instruction word the decoder returns the variant
\* selected by the whole-word matches 00E0 and 00EE first, then the high nibble of
\* the first byte, then (families 5, 8, 9, E, F) the last nibble or the whole second
\* byte, with x the low nibble of the first byte, y the high nibble of the second
\* byte, the address the low nibble of the first byte shifted left 8 plus the second
\* byte, the immediate the second byte and the sprite height its low nibble
C27_DecoderSelectsVariantAndOperands ==
    (Fetched /\ Recognized(FetchedWord)) => last_op.opcode = Instruction(FetchedWord)

\* F265 was fetched and decoded as LoadRegisters(2)
C27_Witness ==
    /\ Fetched
    /\ FetchedWord = 62053
    /\ last_op.opcode = Opcode("LoadRegisters", <<2>>)

\* C28: decoding answers for every one of the 65536 words: an instruction for
\* every word of a recognized pattern, and the unrecognized-instruction failure,
\* never an instruction, for every other word, among them 5xy1..5xyF, 8xyF,
\* 9xy1..9xyF, Exkk with kk other than 9E and A1 and Fxkk with kk outside the nine
\* recognized second bytes
C28_DecoderTotalWithFailureForUnmapped ==
    Fetched =>
        /\ Recognized(FetchedWord) <=> ~is_panic(last_op.opcode)
        /\ ~Recognized(FetchedWord) <=> last_op.opcode.name = "panic: Unrecognized opcode"
        /\ NamedUnmapped(FetchedWord) => last_op.opcode.name = "panic: Unrecognized opcode"

\* 8xyF was fetched and refused
C28_Witness ==
    /\ Fetched
    /\ WordFamily(FetchedWord) = 8
    /\ WordHeight(FetchedWord) = 15
    /\ last_op.opcode.name = "panic: Unrecognized opcode"

\* C29: a word at the program counter that does not decode is never stepped
\* over: the cycle ends in the failure raised by the decoder, with the program
\* counter not advanced and nothing of the machine changed, and runs no
\* instruction
C29_UnrecognizedWordFailsTheCycle ==
    (Fetched /\ ~Recognized(FetchedWord)) =>
        /\ panicked
        /\ self = Panic(prev)
        /\ program_counter = prev.program_counter
        /\ last_op.opcode.name = "panic: Unrecognized opcode"

\* the game's first word, 5xy1, stopped the machine at the program start address
C29_Witness ==
    /\ Fetched
    /\ WordFamily(FetchedWord) = 5
    /\ WordHeight(FetchedWord) = 1
    /\ panicked
    /\ program_counter = PROGRAM_START_ADDRESS
    /\ prev.program_counter = PROGRAM_START_ADDRESS


(***************************************************************************)
(* Construction.                                                            *)
(***************************************************************************)
\* the state is the one the constructor returned
Constructed == last_op.name = "new_with_sdl"

\* C30: a freshly constructed machine has memory[0..79] equal to the 80-byte
\* glyph table and every other memory byte 0; the 16 registers, the index
\* register, both timers, the program counter, the stack pointer and the 16 stack
\* slots are 0; the keyboard is empty, both suspension flags are clear with zero
\* payloads, and all 2048 pixels are off
C30_FreshMachineIsZeroedWithGlyphs ==
    Constructed =>
        /\ Len(HEXADECIMAL_DIGIT_SPRITES) = 80
        /\ \A address \in 0 .. 79 :
              ram_get(ram, address) = HEXADECIMAL_DIGIT_SPRITES[address + 1]
        /\ \A address \in 80 .. RAM_SIZE - 1 : ram_get(ram, address) = 0
        /\ \A register \in 0 .. 15 : registers[register] = 0
        /\ DOMAIN registers = 0 .. 15
        /\ register_i = 0
        /\ delay_timer = 0
        /\ sound_timer = 0
        /\ program_counter = 0
        /\ stack_pointer = 0
        /\ \A slot \in 0 .. 15 : stack[slot] = 0
        /\ DOMAIN stack = 0 .. 15
        /\ keyboard = {}
        /\ ~should_wait_for_key
        /\ wait_for_key_register = 0
        /\ ~should_wait_for_display_refresh
        /\ wait_for_display_refresh_data = <<0, 0, 0>>
        /\ \A pixel \in 0 .. 2047 : ~pixel_get(drawing_buffer, pixel)
        /\ drawing_buffer = {}

\* a machine just constructed: the glyph of 0 starts memory, the glyph of F ends
\* at address 79, and the machine is not running
C30_Witness ==
    /\ Constructed
    /\ << ram_get(ram, 0), ram_get(ram, 1), ram_get(ram, 4) >> = << 240, 144, 240 >>
    /\ << ram_get(ram, 75), ram_get(ram, 76), ram_get(ram, 79) >> = << 240, 128, 128 >>
    /\ ~is_running
    /\ quirk_config = QuirkConfig_new


(***************************************************************************)
(* Loading a game.                                                          *)
(***************************************************************************)
\* memory from the end of the glyph table on holds exactly the bytes of `game_data`
\* from the program start address, and zero everywhere else: every cell that is not
\* zero is a byte of the game, and every byte of the game that is not zero is in
\* its cell
HoldsOnlyGame(game_data) ==
    /\ \A address \in DOMAIN ram :
          address >= HEXADECIMAL_DIGIT_SPRITES_LENGTH =>
              /\ address >= PROGRAM_START_ADDRESS
              /\ address < PROGRAM_START_ADDRESS + Len(game_data)
              /\ ram[address] = game_data[address - PROGRAM_START_ADDRESS + 1]
    /\ \A address \in DOMAIN ram : ram[address] # 0
    /\ \A k \in 1 .. Len(game_data) :
          game_data[k] # 0 => ram_get(ram, PROGRAM_START_ADDRESS + k - 1) = game_data[k]

\* C31: load_game, from any prior state and for any data of at most 3584 bytes,
\* leaves memory[0..79] untouched, sets memory[0x200 + i] = data[i], zeroes every
\* other byte from address 80 on, zeroes the registers, the index register, both
\* timers, the stack and the stack pointer, empties the keyboard, clears both
\* suspension flags and their payloads, turns every pixel off, sets the program
\* counter to 0x200 and marks the machine running
C31_LoadGameResetsAllButGlyphs ==
    last_op.name = "load_game" =>
        /\ ~panicked
        /\ \A address \in 0 .. HEXADECIMAL_DIGIT_SPRITES_LENGTH - 1 :
              ram_get(ram, address) = ram_get(prev.ram, address)
        /\ \E game_data \in ReloadGames : Len(game_data) <= 3584 /\ HoldsOnlyGame(game_data)
        /\ \A register \in 0 .. 15 : registers[register] = 0
        /\ register_i = 0
        /\ delay_timer = 0
        /\ sound_timer = 0
        /\ \A slot \in 0 .. 15 : stack[slot] = 0
        /\ stack_pointer = 0
        /\ keyboard = {}
        /\ ~should_wait_for_key
        /\ wait_for_key_register = 0
        /\ ~should_wait_for_display_refresh
        /\ wait_for_display_refresh_data = <<0, 0, 0>>
        /\ drawing_buffer = {}
        /\ program_counter = 512
        /\ is_running

\* the 3584-byte game was loaded over a machine that had timers running, a
\* subroutine open, pixels lit, a key held and awaited, and memory written at
\* address 0 and above the program
C31_Witness ==
    /\ last_op.name = "load_game"
    /\ HoldsOnlyGame(LargestGame)
    /\ ram_get(ram, RAM_SIZE - 1) = 255
    /\ ram_get(ram, 0) = 2
    /\ ram_get(prev.ram, 768) = 2
    /\ prev.delay_timer > 0
    /\ prev.sound_timer > 0
    /\ prev.stack_pointer = 1
    /\ prev.drawing_buffer # {}
    /\ prev.keyboard # {}
    /\ prev.should_wait_for_key
    /\ prev.registers[0] = 2


(***************************************************************************)
(* The framebuffer and the conditional skips.                               *)
(***************************************************************************)
\* the last call was one of those that may change pixels: a load, ClearScreen, a
\* draw completed at once, or the frame tick that completes a pending draw
CompletesDrawOrClears ==
    \/ last_op.name = "load_game"
    \/ /\ last_op.name = "handle_cycle"
       /\ last_op.opcode.name = "ClearScreen"
    \/ /\ last_op.name = "handle_cycle"
       /\ last_op.opcode.name = "Draw"
       /\ prev.quirk_config.display_wait = "NoWait"
    \/ /\ last_op.name = "handle_frame"
       /\ prev.is_running
       /\ prev.should_wait_for_display_refresh

\* C32: the framebuffer is changed only by the completion of a draw (a draw
\* completed at once, or the frame tick that resolves a pending draw), by
\* ClearScreen and by loading a game: every other instruction, every key event,
\* every suspended cycle and a frame tick without a pending draw leave all 2048
\* pixels as they were
C32_FramebufferChangedOnlyByDrawClearLoad ==
    /\ drawing_buffer \subseteq 0 .. 2047
    /\ ~CompletesDrawOrClears =>
          \A pixel \in 0 .. 2047 :
              pixel_get(drawing_buffer, pixel) = pixel_get(prev.drawing_buffer, pixel)

\* the digits of V0 were written to memory on a lit screen with a key held, and
\* the pixels stayed
C32_Witness ==
    /\ Executed("BinaryCodedDecimal")
    /\ keyboard # {}
    /\ drawing_buffer # {}
    /\ drawing_buffer = prev.drawing_buffer
    /\ ram # prev.ram

SkipInstructions ==
    { "SkipRegisterEqualsValue", "SkipRegisterNotEqualsValue", "SkipRegistersEqual",
      "SkipRegistersNotEqual", "SkipKeyPressed", "SkipKeyNotPressed" }

\* the condition of the skip the last cycle fetched, on the values before it
SkipCondition ==
    LET n == last_op.opcode.name
        a == last_op.opcode.args
    IN CASE n = "SkipRegisterEqualsValue" -> prev.registers[a[1]] = a[2]
         [] n = "SkipRegisterNotEqualsValue" -> prev.registers[a[1]] # a[2]
         [] n = "SkipRegistersEqual" -> prev.registers[a[1]] = prev.registers[a[2]]
         [] n = "SkipRegistersNotEqual" -> prev.registers[a[1]] # prev.registers[a[2]]
         [] n = "SkipKeyPressed" -> prev.registers[a[1]] \in prev.keyboard
         [] n = "SkipKeyNotPressed" -> prev.registers[a[1]] \notin prev.keyboard

\* C34: each of the six conditional skips advances the program counter by 2 more
\* exactly when its condition holds and leaves it after the skip instruction
\* otherwise, and either way changes no register and no element of the keyboard
C34_SkipsAdvanceExactlyOnCondition ==
    (last_op.name = "handle_cycle" /\ last_op.opcode.name \in SkipInstructions) =>
        /\ ~panicked
        /\ program_counter =
              prev.program_counter + (IF SkipCondition THEN 4 ELSE 2)
        /\ registers = prev.registers
        /\ keyboard = prev.keyboard
        /\ self = [prev EXCEPT !.program_counter = program_counter]

\* with only key 0 held, the skip on key 4 not pressed was taken
C34_Witness ==
    /\ Executed("SkipKeyNotPressed")
    /\ keyboard = {0}
    /\ registers[OperandX] = 4
    /\ program_counter = prev.program_counter + 4


(***************************************************************************)
(* The keyboard, and the machine before a game is loaded.                   *)
(***************************************************************************)
KeyEvents == { "handle_key_press", "handle_key_release" }

\* the last call was an event of a physical key that maps to no key of the machine
UnmappedKeyEvent ==
    /\ last_op.name \in KeyEvents
    /\ get_key_mapping(last_op.keycode) = {}

\* C33: the keyboard is a set of key values in 0..15: the press of a mapped key
\* adds its value and the release removes it, a repeated press or release changes
\* nothing further, the other pressed keys are unaffected, and events of unmapped
\* physical keys are ignored entirely
C33_KeyboardIsSetOfPressedKeys ==
    /\ keyboard \subseteq 0 .. 15
    /\ \A keycode \in Keycodes : get_key_mapping(keycode) \subseteq 0 .. 15
    /\ (last_op.name = "handle_key_press" /\ ~UnmappedKeyEvent) =>
          /\ keyboard = prev.keyboard \cup get_key_mapping(last_op.keycode)
          /\ get_key_mapping(last_op.keycode) \subseteq prev.keyboard =>
                keyboard = prev.keyboard
          /\ handle_key_press(self, last_op.keycode) = self
    /\ (last_op.name = "handle_key_release" /\ ~UnmappedKeyEvent) =>
          /\ keyboard = prev.keyboard \ get_key_mapping(last_op.keycode)
          /\ get_key_mapping(last_op.keycode) \cap prev.keyboard = {} =>
                keyboard = prev.keyboard
          /\ handle_key_release(self, last_op.keycode) = self
    /\ UnmappedKeyEvent => self = prev

\* Q was released while X and Q were held: X stays
C33_Witness ==
    /\ last_op = Op("handle_key_release", "Q", NoOpcode)
    /\ prev.keyboard = {0, 4}
    /\ keyboard = {0}
    /\ is_running

\* C38: a machine built by new_with_sdl on which load_game has not yet been
\* called is not running: handle_cycle and handle_frame change no state at all
\* until load_game marks it running
C38_IdleUntilGameLoaded ==
    /\ Constructed => ~is_running
    /\ is_running => (prev.is_running \/ last_op.name = "load_game")
    /\ (~prev.is_running /\ last_op.name # "load_game") => ~is_running
    /\ (~prev.is_running /\ last_op.name \in {"handle_cycle", "handle_frame"}) =>
          /\ self = prev
          /\ last_op.opcode = NoOpcode
    /\ last_op.name = "load_game" => is_running

\* a cycle on a machine without a game, with a key held: nothing moved
C38_Witness ==
    /\ last_op.name = "handle_cycle"
    /\ ~is_running
    /\ ~prev.is_running
    /\ keyboard = {0, 4}
    /\ program_counter = 0
    /\ self = prev

\* C39: a key press or release while the machine is not waiting for a key
\* changes only the keyboard: no register, index register, program counter,
\* memory cell, timer, pixel, stack slot or suspension flag is modified, also
\* while a draw is pending
C39_KeyEventOutsideWaitTouchesOnlyKeyboard ==
    (last_op.name \in KeyEvents /\ ~prev.should_wait_for_key) =>
        /\ self = [prev EXCEPT !.keyboard = keyboard]
        /\ registers = prev.registers
        /\ register_i = prev.register_i
        /\ program_counter = prev.program_counter
        /\ ram = prev.ram
        /\ delay_timer = prev.delay_timer
        /\ sound_timer = prev.sound_timer
        /\ drawing_buffer = prev.drawing_buffer
        /\ stack = prev.stack
        /\ stack_pointer = prev.stack_pointer
        /\ should_wait_for_key = prev.should_wait_for_key
        /\ should_wait_for_display_refresh = prev.should_wait_for_display_refresh
        /\ wait_for_display_refresh_data = prev.wait_for_display_refresh_data

\* Q was pressed while a draw was pending and no key awaited
C39_Witness ==
    /\ last_op = Op("handle_key_press", "Q", NoOpcode)
    /\ ~prev.should_wait_for_key
    /\ should_wait_for_display_refresh
    /\ 4 \notin prev.keyboard
    /\ 4 \in keyboard
    /\ registers[wait_for_key_register] # 4


(***************************************************************************)
(* Machine-code calls, the bounds of the stack, and deferred draws.         *)
(***************************************************************************)
\* C35: every word 0nnn other than 00E0 and 00EE decodes to SystemAddr(nnn) and
\* executes exactly like CallAddr(nnn): it stores the program counter of the
\* moment in stack[sp], increments the stack pointer and sets the program counter
\* to nnn
C35_SystemAddrIsCall ==
    (Fetched /\ WordFamily(FetchedWord) = 0 /\ FetchedWord \notin { 224, 238 }) =>
        /\ last_op.opcode = Opcode("SystemAddr", <<WordAddress(FetchedWord)>>)
        /\ self = handle_opcode(advance_program_counter(prev),
                                Opcode("CallAddr", <<WordAddress(FetchedWord)>>), 0)
        /\ prev.stack_pointer < 16 =>
              /\ ~panicked
              /\ stack = [prev.stack EXCEPT
                             ![prev.stack_pointer] = prev.program_counter + 2]
              /\ stack_pointer = prev.stack_pointer + 1
              /\ program_counter = WordAddress(FetchedWord)

\* 0ABC as the first word of a game: 202 saved in slot 0, execution at ABC
C35_Witness ==
    /\ Fetched
    /\ FetchedWord = 2748
    /\ Executed("SystemAddr")
    /\ stack[0] = 514
    /\ stack_pointer = 1
    /\ program_counter = 2748

\* C36: in every state reachable through cycles, frame ticks and key events the
\* stack pointer is between 0 and 16, and a load puts it back to 0: a call at
\* depth 16 and a return at depth 0 abort the execution, without a write outside
\* the 16 slots, a wrapped pointer or a jump to an address that was not saved
C36_StackPointerWithinBounds ==
    /\ stack_pointer \in 0 .. 16
    /\ DOMAIN stack = 0 .. 15
    /\ load_game(self, EmptyGame).stack_pointer = 0
    /\ (Fetched /\ last_op.opcode.name \in {"CallAddr", "SystemAddr"}
               /\ prev.stack_pointer = 16) =>
          /\ panicked
          /\ stack = prev.stack
          /\ stack_pointer = 16
    /\ (Fetched /\ last_op.opcode.name = "Return" /\ prev.stack_pointer = 0) =>
          /\ panicked
          /\ stack = prev.stack
          /\ stack_pointer = 0
          /\ program_counter = prev.program_counter + 2

\* the seventeenth nested call stopped the machine with the sixteen slots full
C36_Witness ==
    /\ Fetched
    /\ last_op.opcode.name = "CallAddr"
    /\ prev.stack_pointer = 16
    /\ stack_pointer = 16
    /\ panicked
    /\ \A slot \in 0 .. 15 : stack[slot] = 520

\* what may happen between a deferred draw and the frame tick: suspended cycles
\* and key events, here up to two of them
InterimEvents(s) ==
    { handle_cycle(s, 0) }
        \cup { handle_key_press(s, keycode) : keycode \in Keycodes }
        \cup { handle_key_release(s, keycode) : keycode \in Keycodes }

AfterInterim(s) ==
    { s } \cup InterimEvents(s) \cup UNION { InterimEvents(t) : t \in InterimEvents(s) }

\* the same instruction from the same state with the display wait disabled
ImmediateDraw ==
    handle_cycle([prev EXCEPT !.quirk_config.display_wait = "NoWait"], 0)

\* C37: a deferred draw and an immediate one are equivalent: from the same
\* state, a Draw under the display wait followed by the next frame tick gives the
\* framebuffer and the VF of the same Draw without the display wait, whatever
\* suspended cycles and key presses and releases come between the instruction and
\* the tick
C37_DeferredDrawEqualsImmediate ==
    (Executed("Draw") /\ prev.quirk_config.display_wait = "Wait") =>
        /\ should_wait_for_display_refresh
        /\ drawing_buffer = prev.drawing_buffer
        /\ \A immediate \in { ImmediateDraw } :
              \A interim \in AfterInterim(self) :
                  \A ticked \in { handle_frame(interim) } :
                      /\ ticked.drawing_buffer = immediate.drawing_buffer
                      /\ ticked.registers[REGISTER_F] = immediate.registers[REGISTER_F]
                      /\ ticked.registers = immediate.registers
                      /\ ~ticked.should_wait_for_display_refresh

\* a deferred draw that will erase pixels: the tick sets VF, as the immediate
\* draw does
C37_Witness ==
    /\ Executed("Draw")
    /\ should_wait_for_display_refresh
    /\ registers[REGISTER_F] = 0
    /\ registers[0] # registers[1]
    /\ handle_frame(handle_key_press(self, "Q")).registers[REGISTER_F] = 1
    /\ ImmediateDraw.registers[REGISTER_F] = 1
    /\ ImmediateDraw.drawing_buffer # drawing_buffer

====
